---- MODULE Spec2Model ----
(***************************************************************************)
(* A model of the nufatfs FAT driver: the in-memory FAT, the cluster       *)
(* allocator, the cached directory tree, file handles over cluster chains, *)
(* the flush protocol and the block device underneath.                     *)
(*                                                                         *)
(* Strings are sequences of code points, byte buffers are sequences of     *)
(* numbers 0..255.  Offsets are 0-based as in the source; TLA+ sequences   *)
(* are 1-based, so offset o is element o + 1.                              *)
(*                                                                         *)
(* The allocator and the high-level shell were written against a revision  *)
(* of the low-level class in which endOfChain was one number, isFat16 a    *)
(* boolean and the first cluster of an entry was computed in place; the    *)
(* low-level class modelled here keeps the eight end-of-chain values in a  *)
(* list, a fatType and reads entry._firstCluster.  The three names are     *)
(* read as what both revisions mean by them: the end-of-chain value the    *)
(* low-level class itself writes, "the volume is FAT16", and               *)
(* low | high << 16.                                                       *)
(***************************************************************************)
EXTENDS Integers, Sequences, FiniteSets, TLC

-----------------------------------------------------------------------------
(* Volume geometry, as the boot sector of the mounted image declares it.   *)

BytesPerSector == 128
SectorsPerCluster == 1
ReservedSectors == 2
FatCount == 2
SectorsPerFat == 2
MaxRootDirEntries == 4
DirEntrySize == 32

FatTypes == {"Fat16", "Fat32"}

clusterSizeInBytes == SectorsPerCluster * BytesPerSector

\* bytes of one FAT entry
EntryWidth(ft) == IF ft = "Fat16" THEN 2 ELSE 4

\* number of entries of one FAT copy
FatEntries(ft) == (SectorsPerFat * BytesPerSector) \div EntryWidth(ft)

endOfChain(ft) ==
    IF ft = "Fat16" THEN [i \in 1..8 |-> 65528 + (i - 1)]
                    ELSE [i \in 1..8 |-> 268435448 + (i - 1)]

EndOfChainSet(ft) == {endOfChain(ft)[i] : i \in 1..8}

\* the value written to end a chain: endOfChain[endOfChain.length - 1]
EndOfChainMark(ft) == endOfChain(ft)[8]

dataSectorOffset == ReservedSectors + FatCount * SectorsPerFat

fat16ClusterAreaOffset(ft) ==
    IF ft = "Fat16" THEN (MaxRootDirEntries * DirEntrySize) \div BytesPerSector ELSE 0

clusterToSector(ft, cluster) ==
    SectorsPerCluster * (cluster - 2) + dataSectorOffset + fat16ClusterAreaOffset(ft)

\* the device holds every cluster the FAT has an entry for
NumSectors(ft) == clusterToSector(ft, FatEntries(ft))

RootDirCluster == 2

-----------------------------------------------------------------------------
(* Small helpers.                                                          *)

Min(a, b) == IF a < b THEN a ELSE b
Max(a, b) == IF a > b THEN a ELSE b
Abs(a) == IF a < 0 THEN -a ELSE a
CeilDiv(a, b) == (a + b - 1) \div b

Zeros(n) == [i \in 1..n |-> 0]
Falses(n) == [i \in 1..n |-> FALSE]

\* Array.prototype.slice(a, b) on a 0-based array
Slice(s, a, b) == SubSeq(s, a + 1, Min(b, Len(s)))

\* TypedArray.prototype.set(src, at)
SetAt(buf, src, at) ==
    [i \in 1..Len(buf) |-> IF i > at /\ i <= at + Len(src) THEN src[i - at] ELSE buf[i]]

RECURSIVE IndexOf(_, _, _)
IndexOf(s, x, i) ==
    IF i > Len(s) THEN 0 ELSE IF s[i] = x THEN i ELSE IndexOf(s, x, i + 1)

Contains(s, x) == \E i \in 1..Len(s) : s[i] = x

\* splice(i, n) on a 1-based position i
Splice(s, i, n) == SubSeq(s, 1, i - 1) \o SubSeq(s, i + n, Len(s))

SeqToSet(s) == {s[i] : i \in 1..Len(s)}

\* The({body : x \in {e}}) is body with x standing for the value of e, which
\* is computed once however often body mentions x
The(S) == CHOOSE x \in S : TRUE

\* DataView.setUint16 / setUint32, little-endian
U16LE(v) == <<v % 256, (v \div 256) % 256>>
U32LE(v) == <<v % 256, (v \div 256) % 256, (v \div 65536) % 256, (v \div 16777216) % 256>>

\* bitwise and with a one-bit mask
HasBit(v, bit) == ((v \div bit) % 2) = 1

-----------------------------------------------------------------------------
(* utils.ts: the binary codec and the 8.3 names.                           *)

SPACE == 32
DOT == 46
SLASH == 47

\* the little-endian integer formed by bytes i..w of a slice; a byte the
\* slice does not hold is undefined and contributes 0 to the bitwise or
RECURSIVE LEFrom(_, _, _)
LEFrom(bytes, i, w) ==
    IF i > w THEN 0
    ELSE (IF i <= Len(bytes) THEN bytes[i] ELSE 0) + 256 * LEFrom(bytes, i + 1, w)

\* one integer code of structFormatUnpack: the bytes are or-ed into a 32-bit
\* signed accumulator, and the two's-complement step runs in the branch of the
\* UPPER-case codes.  Four-byte values stay below 2^31 in this model.
structUnpackInt(bytes, w, upper) ==
    The({IF w = 4
         THEN IF upper THEN low + b4 * 16777216
              ELSE low + (IF b4 >= 128 THEN b4 - 256 ELSE b4) * 16777216
         ELSE IF upper /\ low >= 2 ^ (8 * w - 1) THEN low - 2 ^ (8 * w) ELSE low
         : low \in {LEFrom(bytes, 1, Min(w, 3))},
           b4 \in {IF w = 4 /\ Len(bytes) >= 4 THEN bytes[4] ELSE 0}})

\* TextDecoder.decode on the bytes this model stores in names: ASCII decodes
\* to itself, any other byte to the replacement character
textDecode(bytes) == [i \in 1..Len(bytes) |-> IF bytes[i] < 128 THEN bytes[i] ELSE 65533]

\* TextEncoder.encode (UTF-8)
RECURSIVE textEncode(_)
textEncode(str) ==
    IF str = <<>> THEN <<>>
    ELSE LET c == Head(str)
             enc == IF c < 128 THEN <<c>>
                    ELSE IF c < 2048 THEN <<192 + (c \div 64), 128 + (c % 64)>>
                    ELSE <<224 + (c \div 4096), 128 + ((c \div 64) % 64), 128 + (c % 64)>>
         IN  enc \o textEncode(Tail(str))

toLowerCase(str) ==
    [i \in 1..Len(str) |-> IF str[i] >= 65 /\ str[i] <= 90 THEN str[i] + 32 ELSE str[i]]

RECURSIVE trimStart(_)
trimStart(str) ==
    IF str # <<>> /\ Head(str) = SPACE THEN trimStart(Tail(str)) ELSE str

RECURSIVE trimEnd(_)
trimEnd(str) ==
    IF str # <<>> /\ str[Len(str)] = SPACE THEN trimEnd(SubSeq(str, 1, Len(str) - 1)) ELSE str

trim(str) == trimEnd(trimStart(str))

\* 1-based position of the last occurrence of c, 0 when there is none
RECURSIVE LastIndexOf(_, _, _)
LastIndexOf(str, c, i) ==
    IF i = 0 THEN 0 ELSE IF str[i] = c THEN i ELSE LastIndexOf(str, c, i - 1)

splitExt(name) ==
    LET index == LastIndexOf(name, DOT, Len(name))
    IN  IF index = 0 THEN <<name, <<>>>>
        ELSE <<SubSeq(name, 1, index - 1), SubSeq(name, index + 1, Len(name))>>

\* throws FatError unless the name has 11 characters
splitExt83Throws(name) == Len(name) # 8 + 3
splitExt83(name) == <<trim(SubSeq(name, 1, 8)), trim(SubSeq(name, 9, 11))>>

name83toNormal(name) ==
    LET p == splitExt83(name)
    IN  IF p[2] = <<>> THEN p[1] ELSE p[1] \o <<DOT>> \o p[2]

namesEqual(normalName, name83) ==
    LET a == splitExt(normalName)
        b == splitExt83(name83)
    IN  toLowerCase(a[1]) = toLowerCase(b[1]) /\ toLowerCase(a[2]) = toLowerCase(b[2])

PadTo(str, n) == str \o [i \in 1..(n - Len(str)) |-> SPACE]

nameNormalTo83(normalName) ==
    LET p == splitExt(normalName)
        name == IF Len(p[1]) > 8 THEN SubSeq(p[1], 1, 8) ELSE p[1]
        ext  == IF Len(p[2]) > 3 THEN SubSeq(p[2], 1, 3) ELSE p[2]
    IN  PadTo(name, 8) \o PadTo(ext, 3)

-----------------------------------------------------------------------------
(* constructors.ts: directory entries.                                     *)

ATTR_NONE == 0
ATTR_VOLUME_LABEL == 8
ATTR_DIRECTORY == 16
ATTR_EQ_LFN == 15
FAT_MARKER_DELETED == 229

IsDirectoryAttr(attribs) == HasBit(attribs % 256, ATTR_DIRECTORY)
\* attribs & FORBIDDEN_ATTRIBUTES_FOR_FILE
HasForbiddenAttr(attribs) ==
    HasBit(attribs % 256, ATTR_DIRECTORY) \/ HasBit(attribs % 256, ATTR_VOLUME_LABEL)

\* structFormatUnpack("<11sBB5s2sH4sHI", input, offset)
createFatFSDirectoryEntry(input, offset) ==
    LET filename == Slice(input, offset, offset + 11)
    IN  [ filename |-> filename,
          attribs |-> structUnpackInt(Slice(input, offset + 11, offset + 12), 1, TRUE),
          reserved |-> structUnpackInt(Slice(input, offset + 12, offset + 13), 1, TRUE),
          creationDate |-> Slice(input, offset + 13, offset + 18),
          accessedDate |-> Slice(input, offset + 18, offset + 20),
          firstClusterAddressHigh |-> structUnpackInt(Slice(input, offset + 20, offset + 22), 2, TRUE),
          writtenDate |-> Slice(input, offset + 22, offset + 26),
          firstClusterAddressLow |-> structUnpackInt(Slice(input, offset + 26, offset + 28), 2, TRUE),
          fileSize |-> structUnpackInt(Slice(input, offset + 28, offset + 32), 4, TRUE),
          filenameStr |-> textDecode(filename),
          lfns |-> 0 ]

newFatFSDirectoryEntry(name83, attribs, rootCluster, fileSize) ==
    [ filename |-> textEncode(name83),
      attribs |-> attribs,
      reserved |-> 0,
      creationDate |-> Zeros(5),
      accessedDate |-> Zeros(2),
      firstClusterAddressHigh |-> rootCluster \div 65536,
      writtenDate |-> Zeros(4),
      firstClusterAddressLow |-> rootCluster % 65536,
      fileSize |-> fileSize,
      filenameStr |-> name83,
      lfns |-> 0 ]

\* The name is taken from _filenameStr, not from the filename bytes.  An
\* encoded name longer than the record makes TypedArray.set throw.
serializeThrows(e) == Len(textEncode(e.filenameStr)) > DirEntrySize
serializeFatFSDirectoryEntry(e) ==
    LET d0 == SetAt(Zeros(DirEntrySize), textEncode(e.filenameStr), 0)
        d1 == SetAt(d0, <<e.attribs % 256, e.reserved % 256>>, 11)
        d2 == SetAt(d1, e.creationDate, 13)
        d3 == SetAt(d2, e.accessedDate, 18)
        d4 == SetAt(d3, U16LE(e.firstClusterAddressHigh % 65536), 20)
        d5 == SetAt(d4, e.writtenDate, 22)
        d6 == SetAt(d5, U16LE(e.firstClusterAddressLow % 65536), 26)
    IN  SetAt(d6, U32LE(e.fileSize), 28)

\* firstClusterAddressLow | firstClusterAddressHigh << 16
FirstCluster(e) ==
    IF e.firstClusterAddressLow < 0 THEN e.firstClusterAddressLow
    ELSE e.firstClusterAddressLow + 65536 * e.firstClusterAddressHigh

-----------------------------------------------------------------------------
(* The block device (types.ts Driver): sectors written so far or present   *)
(* in the mounted image; every other sector of the image holds zeros.      *)
(* The program state is passed through the operators below as one record   *)
(* w; w.err names the exception an operation ended with ("" for none).     *)

OK(w) == w.err = ""
Throw(w, e) == [w EXCEPT !.err = e]

readSector(dev, s) == IF s \in DOMAIN dev THEN dev[s] ELSE Zeros(BytesPerSector)

RECURSIVE readSectors(_, _, _)
readSectors(dev, startIndex, count) ==
    IF count = 0 THEN <<>>
    ELSE readSector(dev, startIndex) \o readSectors(dev, startIndex + 1, count - 1)

\* sectors startIndex .. of a write of Len(data) bytes
writeSectors(dev, startIndex, data) ==
    LET n == Len(data) \div BytesPerSector
        touched == startIndex .. (startIndex + n - 1)
    IN  [s \in DOMAIN dev \cup touched |->
            IF s \in touched
            THEN SubSeq(data, (s - startIndex) * BytesPerSector + 1,
                              (s - startIndex + 1) * BytesPerSector)
            ELSE dev[s]]

\* the device write of the driver; w.writes lists the sectors the operation
\* in progress has written, in order
driverWrite(w, startIndex, data) ==
    [w EXCEPT !.dev = writeSectors(w.dev, startIndex, data),
              !.writes = w.writes \o
                  [i \in 1..(Len(data) \div BytesPerSector) |-> startIndex + i - 1]]

-----------------------------------------------------------------------------
(* low-level.ts: FAT entries.                                              *)

InFat(w, n) == n >= 0 /\ n < FatEntries(w.fatType)

\* DataView bounds: an index outside the buffer throws RangeError
readFATClusterEntry(w, n) == w.fat[n]

FatSectorOf(ft, n) == (n * EntryWidth(ft)) \div BytesPerSector

writeFATClusterEntry(w, n, next) ==
    IF ~InFat(w, n) THEN Throw(w, "RangeError")
    ELSE [w EXCEPT !.fat[n] = next,
                   !.alteredFATSectors = IF Contains(@, FatSectorOf(w.fatType, n)) THEN @
                                         ELSE Append(@, FatSectorOf(w.fatType, n)),
                   !.fatAltered = TRUE]

EntryBytes(ft, v) == IF ft = "Fat16" THEN U16LE(v) ELSE U32LE(v)

EntriesPerSector(ft) == BytesPerSector \div EntryWidth(ft)

\* bytes of sector s of the in-memory FAT
fatSectorSlice(ft, fat, s) ==
    [i \in 1..BytesPerSector |->
        EntryBytes(ft, fat[s * EntriesPerSector(ft) + ((i - 1) \div EntryWidth(ft))])
            [((i - 1) % EntryWidth(ft)) + 1]]

\* getUint16 / getUint32 over the bytes read from the device
DecodeFat(ft, bytes) ==
    [n \in 0..(FatEntries(ft) - 1) |->
        LEFrom(SubSeq(bytes, n * EntryWidth(ft) + 1, (n + 1) * EntryWidth(ft)), 1, EntryWidth(ft))]

\* getClusterChainFromFAT: r.err is the exception, r.links the chain
RECURSIVE ChainFrom(_, _, _)
ChainFrom(w, link, links) ==
    IF ~InFat(w, link) THEN [err |-> "RangeError", links |-> links]
    ELSE LET next == readFATClusterEntry(w, link)
         IN  IF next = 0 \/ next \in EndOfChainSet(w.fatType)
             THEN [err |-> "", links |-> links]
             ELSE IF Contains(links, next)
                  THEN [err |-> "Error: Infinite allocation loop!", links |-> links]
                  ELSE ChainFrom(w, next, Append(links, next))

getClusterChainFromFAT(w, initialCluster) ==
    ChainFrom(w, initialCluster, <<initialCluster>>)

\* readClusters(clusterNumber, 1)
readClusters(w, clusterNumber) ==
    IF clusterNumber + 1 > NumSectors(w.fatType)
    THEN [err |-> "FatError: Corrupted FAT - reading outside of volume!", data |-> <<>>]
    ELSE [err |-> "",
          data |-> readSectors(w.dev, clusterToSector(w.fatType, clusterNumber), SectorsPerCluster)]

writeClusters(w, clusterNumber, data) ==
    IF ~w.isWritable THEN Throw(w, "FatError: read-only")
    ELSE IF clusterNumber + (Len(data) \div clusterSizeInBytes) > NumSectors(w.fatType)
    THEN Throw(w, "FatError: Corrupted FAT - writing outside of volume!")
    ELSE driverWrite(w, clusterToSector(w.fatType, clusterNumber), data)

-----------------------------------------------------------------------------
(* cluster-allocator.ts                                                    *)

RECURSIVE RunLength(_, _, _)
RunLength(freemap, i, n) ==
    IF i < n /\ freemap[i] THEN 1 + RunLength(freemap, i + 1, n) ELSE 0

\* Array.prototype.indexOf(true, from): -1 when there is none
indexOfTrue(freemap, from, n) ==
    LET found == {j \in from..(n - 1) : freemap[j]}
    IN  IF found = {} THEN -1 ELSE CHOOSE j \in found : \A k \in found : j <= k

\* the outer loop of convertFreemapToFreelist: the inner loop leaves nextFree
\* one past the entry that ended the run
RECURSIVE RunsFrom(_, _, _)
RunsFrom(freemap, nextFree, n) ==
    LET startCluster == indexOfTrue(freemap, nextFree, n)
        length == RunLength(freemap, startCluster, n)
    IN  IF startCluster = -1 THEN <<>>
        ELSE <<[startCluster |-> startCluster, length |-> length]>> \o
             RunsFrom(freemap, startCluster + length + 1, n)

\* the freelist is left as it was
convertFreemapKeepsFreelist(w) == w

convertFreemapToFreelist(w) ==
    [w EXCEPT !.freelist = RunsFrom(w.freemap, 0, FatEntries(w.fatType))]

\* init: every entry from 2 on is free exactly when its FAT value is 0
allocatorInit(ft, fat) ==
    [c \in 0..(FatEntries(ft) - 1) |-> c >= 2 /\ fat[c] = 0]

RECURSIVE MarkFree(_, _)
MarkFree(freemap, list) ==
    IF list = <<>> THEN freemap
    ELSE MarkFree([freemap EXCEPT ![Head(list)] = TRUE], Tail(list))

addClusterListToFreelist(w, list) ==
    convertFreemapToFreelist([w EXCEPT !.freemap = MarkFree(w.freemap, list)])

\* Array.prototype.sort with the distance comparator (a stable sort)
RECURSIVE InsertByDistance(_, _, _)
InsertByDistance(sorted, e, at) ==
    IF sorted = <<>> THEN <<e>>
    ELSE IF Abs(Head(sorted).startCluster - at) <= Abs(e.startCluster - at)
         THEN <<Head(sorted)>> \o InsertByDistance(Tail(sorted), e, at)
         ELSE <<e>> \o sorted

RECURSIVE SortByDistance(_, _)
SortByDistance(list, at) ==
    IF list = <<>> THEN <<>>
    ELSE InsertByDistance(SortByDistance(SubSeq(list, 1, Len(list) - 1), at), list[Len(list)], at)

\* the list in freelist order whatever the last link
findClosestUnsorted(list, lastLink) == list

findClosest(list, lastLink) == IF lastLink # -1 THEN SortByDistance(list, lastLink) ELSE list

\* no cluster is linked to the next
LinkFatSkipped(w, links, i) == w

RECURSIVE LinkFat(_, _, _)
LinkFat(w, links, i) ==
    IF i > Len(links) THEN w
    ELSE LinkFat(writeFATClusterEntry(w, links[i - 1], links[i]), links, i + 1)

\* allocate(lastLink, size); lastLink = -1 stands for null.  The test
\* "if(allFitting)" is true of every array, so the fallback to a run of any
\* length is never taken and an empty allFitting makes the next line throw.
allocate(w, lastLink, size) ==
    LET sizeAsClusters == CeilDiv(size, clusterSizeInBytes)
        allFitting == findClosest(SelectSeq(w.freelist, LAMBDA e : e.length >= sizeAsClusters), lastLink)
    IN  IF allFitting = <<>> THEN [w |-> Throw(w, "TypeError"), links |-> <<>>]
        ELSE
        LET chainToModify == allFitting[1]
            startIndex == chainToModify.startCluster
            pos == CHOOSE i \in 1..Len(w.freelist) : w.freelist[i].startCluster = startIndex
            shrunk == [startCluster |-> startIndex + sizeAsClusters,
                       length |-> chainToModify.length - sizeAsClusters]
            freelist == IF shrunk.length = 0 THEN Splice(w.freelist, pos, 1)
                        ELSE [w.freelist EXCEPT ![pos] = shrunk]
            links == [i \in 1..sizeAsClusters |-> startIndex + i - 1]
        IN  The({IF sizeAsClusters = 0 THEN [w |-> Throw(w1, "TypeError"), links |-> <<>>]
                 ELSE The({[w |-> IF lastLink # -1
                                  THEN writeFATClusterEntry(w3, lastLink, links[1]) ELSE w3,
                            links |-> links]
                           : w3 \in {writeFATClusterEntry(LinkFat(w1, links, 2), links[Len(links)],
                                                          EndOfChainMark(w.fatType))}})
                 : w1 \in {[w EXCEPT !.freelist = freelist,
                                     !.freemap = [c \in DOMAIN w.freemap |->
                                         IF c >= startIndex /\ c < startIndex + sizeAsClusters
                                         THEN FALSE ELSE w.freemap[c]]]}})

-----------------------------------------------------------------------------
(* chained-structures.ts and cluster-chain.ts: Chain over links.  A link   *)
(* is a cluster (ClusterChainLink) or the fixed FAT16 root region (the     *)
(* literal link flush builds).                                             *)

NoLink == [kind |-> "none", index |-> -1, length |-> 0]
ClusterChainLink(index) == [kind |-> "cluster", index |-> index, length |-> clusterSizeInBytes]
RootRegionLink == [kind |-> "root", index |-> -1, length |-> MaxRootDirEntries * DirEntrySize]

RECURSIVE SumLengths(_)
SumLengths(links) == IF links = <<>> THEN 0 ELSE Head(links).length + SumLengths(Tail(links))

chainLength(ch) == SumLengths(ch.links)

\* set cursor(n): the first link that holds position n, with its 1-based
\* place in links; place 0 when no link holds it
RECURSIVE FindLink(_, _, _, _)
FindLink(links, n, idx, currentLength) ==
    IF idx > Len(links) THEN [place |-> 0, sub |-> -1]
    ELSE IF links[idx].length + currentLength > n
         THEN [place |-> idx, sub |-> n - currentLength]
         ELSE FindLink(links, n, idx + 1, currentLength + links[idx].length)

setCursor(ch, n) ==
    The({IF f.place = 0
         THEN [ch EXCEPT !.cursor = n, !.currentLink = NoLink, !.linkSubCursor = -1]
         ELSE [ch EXCEPT !.cursor = n, !.currentLink = ch.links[f.place],
                         !.linkSubCursor = f.sub, !.linkIndex = f.place - 1]
         : f \in {FindLink(ch.links, n, 1, 0)}})

\* new Chain(links, allocateLink, readLimitSize); readLimitSize = -1 stands
\* for undefined.  Every link of this program has a write function.
\* allocatesNothing marks a LinkAllocator that returns no link: the type
\* admits one, the chains this program builds never have it.
newChain(links, hasAllocator, readLimitSize) ==
    setCursor([ links |-> links, cursor |-> 0, currentLink |-> NoLink, linkSubCursor |-> -1,
                linkIndex |-> 0, writable |-> TRUE, hasAllocator |-> hasAllocator,
                totalLength |-> IF readLimitSize # -1 THEN readLimitSize ELSE SumLengths(links),
                writingBuffer |-> <<>>, isNewByteArray |-> <<>>,
                allocatesNothing |-> FALSE ], 0)

linkRead(w, link) ==
    IF link.kind = "root" THEN [err |-> "", data |-> Zeros(link.length)]
    ELSE readClusters(w, link.index)

\* a plausible slip: the data never reaches the device
linkWriteNothing(w, link, data) == w

\* ClusterChainLink.write pads a short buffer with zeros to a whole cluster
linkWrite(w, link, data) ==
    IF link.kind = "root" THEN driverWrite(w, dataSectorOffset, data)
    ELSE writeClusters(w, link.index,
             IF Len(data) # clusterSizeInBytes
             THEN SetAt(Zeros(clusterSizeInBytes), data, 0) ELSE data)

\* r.w is the program state, r.ch the chain
flushWritingBuffer(w, ch) ==
    IF ch.writingBuffer = <<>> THEN [w |-> w, ch |-> ch]
    ELSE IF ch.currentLink = NoLink
         THEN [w |-> Throw(w, "ChainError: Invalid chain state (Assertion 1)"), ch |-> ch]
    ELSE IF Len(ch.writingBuffer) # ch.currentLink.length
         THEN [w |-> Throw(w, "ChainError: Invalid chain state (Assertion 2)"), ch |-> ch]
    ELSE The({
         IF isUsingAnyOldBytes /\ original.err # ""
         THEN [w |-> Throw(w, original.err), ch |-> ch]
         ELSE The({IF ~OK(w1) THEN [w |-> w1, ch |-> ch]
                   ELSE [w |-> w1, ch |-> [ch EXCEPT !.writingBuffer = <<>>,
                                                     !.isNewByteArray = <<>>]]
                   : w1 \in {linkWrite(w, ch.currentLink,
                                 IF isUsingAnyOldBytes
                                 THEN [i \in 1..Len(original.data) |->
                                          IF ch.isNewByteArray[i] THEN ch.writingBuffer[i]
                                          ELSE original.data[i]]
                                 ELSE ch.writingBuffer)}})
         : isUsingAnyOldBytes \in {\E i \in 1..Len(ch.isNewByteArray) : ~ch.isNewByteArray[i]},
           original \in {linkRead(w, ch.currentLink)}})

\* a plausible slip: the data is copied without the chain being grown first
chainGrowSkipped(w, ch, dataLength, wholeChainLength) == [w |-> w, ch |-> ch]

\* the allocation loop of write: links are requested until the chain holds
\* position cursor + dataLength
RECURSIVE chainGrow(_, _, _, _)
chainGrow(w, ch, dataLength, wholeChainLength) ==
    IF ~(ch.cursor + dataLength > wholeChainLength) THEN [w |-> w, ch |-> ch]
    ELSE IF ~ch.hasAllocator THEN [w |-> Throw(w, "ChainError: No space!"), ch |-> ch]
    ELSE The({
         IF ~OK(a.w) THEN [w |-> a.w, ch |-> ch]
         ELSE IF a.links = <<>>
              THEN [w |-> Throw(a.w, "ChainError: Allocator can't allocate more links!"), ch |-> ch]
         ELSE The({chainGrow(a.w, setCursor([ch EXCEPT !.links = ch.links \o newLinks], ch.cursor),
                             dataLength, wholeChainLength + SumLengths(newLinks))
                   : newLinks \in {[i \in 1..Len(a.links) |-> ClusterChainLink(a.links[i])]}})
         : a \in {IF ch.allocatesNothing THEN [w |-> w, links |-> <<>>]
                  ELSE allocate(w, IF ch.links = <<>> THEN -1 ELSE ch.links[Len(ch.links)].index,
                                (ch.cursor + dataLength) - wholeChainLength)}})

RECURSIVE chainWriteLoop(_, _, _, _)
chainWriteLoop(w, ch, data, incomingDataCursor) ==
    IF ~(incomingDataCursor < Len(data)) THEN [w |-> w, ch |-> ch]
    ELSE IF ch.currentLink = NoLink THEN [w |-> Throw(w, "TypeError"), ch |-> ch]
    ELSE
    The({The({
        IF dataLengthForThisLink <= 0 THEN [w |-> Throw(w, "NonTermination"), ch |-> cached]
        ELSE The({
             IF ~OK(f.w) THEN f
             ELSE The({chainWriteLoop(f.w, [moved EXCEPT !.totalLength = Max(@, moved.cursor)],
                                      data, incomingDataCursor + dataLengthForThisLink)
                       : moved \in {setCursor(f.ch, f.ch.cursor + dataLengthForThisLink)}})
             : f \in {The({IF merged.linkSubCursor + dataLengthForThisLink
                                 >= merged.currentLink.length
                           THEN flushWritingBuffer(w, merged) ELSE [w |-> w, ch |-> merged]
                           : merged \in {The({
                               [cached EXCEPT
                                  !.writingBuffer = SetAt(@, slice, cached.linkSubCursor),
                                  !.isNewByteArray = [i \in 1..Len(@) |->
                                      IF i > cached.linkSubCursor
                                         /\ i <= cached.linkSubCursor + Len(slice)
                                      THEN TRUE ELSE @[i]]]
                               : slice \in {Slice(data, incomingDataCursor,
                                                  incomingDataCursor + dataLengthForThisLink)}})}})}})
        : dataLengthForThisLink \in {Min(cached.currentLink.length - cached.linkSubCursor,
                                         Len(data) - incomingDataCursor)}})
        : cached \in {IF ch.writingBuffer = <<>>
                      THEN [ch EXCEPT !.writingBuffer = Zeros(ch.currentLink.length),
                                      !.isNewByteArray = Falses(ch.currentLink.length)]
                      ELSE ch}})

chainWrite(w, ch, data) ==
    IF ~ch.writable THEN [w |-> Throw(w, "ChainError: Cannot write to a read-only chain!"), ch |-> ch]
    ELSE The({IF ~OK(g.w) THEN g ELSE chainWriteLoop(g.w, g.ch, data, 0)
              : g \in {chainGrow(w, ch, Len(data), chainLength(ch))}})

\* r.err, r.ch, r.data
RECURSIVE chainReadLoop(_, _, _, _)
chainReadLoop(w, ch, count, ret) ==
    IF ~(Len(ret) < count) \/ ch.currentLink = NoLink \/ ch.linkSubCursor = -1
    THEN [err |-> "", ch |-> ch, data |-> ret]
    ELSE The({
         IF contents.err # "" THEN [err |-> contents.err, ch |-> ch, data |-> ret]
         ELSE The({
              IF limited = <<>> THEN [err |-> "NonTermination", ch |-> ch, data |-> ret]
              ELSE The({chainReadLoop(w,
                            [ch EXCEPT
                               !.cursor = @ + Len(limited),
                               !.linkSubCursor = IF advance THEN sub - ch.currentLink.length ELSE sub,
                               !.linkIndex = IF advance THEN @ + 1 ELSE @,
                               !.currentLink = IF advance
                                               THEN (IF ch.linkIndex + 2 <= Len(ch.links)
                                                     THEN ch.links[ch.linkIndex + 2] ELSE NoLink)
                                               ELSE @],
                            count, ret \o limited)
                        : sub \in {ch.linkSubCursor + Len(limited)},
                          advance \in {ch.linkSubCursor + Len(limited) >= ch.currentLink.length}})
              : limited \in {Slice(contents.data, ch.linkSubCursor,
                                   count - Len(ret) + ch.linkSubCursor)}})
         : contents \in {linkRead(w, ch.currentLink)}})

chainRead(w, ch, count) ==
    The({IF limitedCount < 0 THEN [err |-> "RangeError", ch |-> ch, data |-> <<>>]
         ELSE chainReadLoop(w, ch, limitedCount, <<>>)
         : limitedCount \in {Min(ch.totalLength, count + ch.cursor) - ch.cursor}})

chainReadAll(w, ch) == chainRead(w, ch, chainLength(ch) - ch.cursor)

\* seek(to) with whence 'start'
chainSeek(w, ch, to) ==
    The({IF ~OK(f.w) THEN f ELSE [w |-> f.w, ch |-> setCursor(f.ch, to)]
         : f \in {flushWritingBuffer(w, ch)}})

-----------------------------------------------------------------------------
(* low-level.ts: directory parsing and the cached directory tree.          *)
(* w.ents is the heap of FatFSDirectoryEntry objects and w.dirs the heap   *)
(* of CachedDirectory objects; an object is named by its place in the      *)
(* heap.  A child of a directory is [isDir, id]: a CachedDirectory or a    *)
(* plain entry.  underlying = 0 stands for null.                           *)

RootDir == 1
RootRef == [isDir |-> TRUE, id |-> RootDir]

\* consumeAllDirectoryEntries.  The loop has no test against the end of the
\* buffer: past the end every slice is empty, filename[0] is undefined and
\* equals neither 0x00 nor 0xE5, so entries are pushed without end.
RECURSIVE consumeLoop(_, _, _, _, _)
consumeLoop(data, includeDeleted, offset, lfnCounter, output) ==
    IF offset >= Len(data) THEN [err |-> "NonTermination", entries |-> output]
    ELSE The({
         LET isLfn == raw.attribs = ATTR_EQ_LFN
             counter == IF isLfn THEN lfnCounter + 1 ELSE 0
         IN  IF raw.filename[1] = FAT_MARKER_DELETED /\ ~includeDeleted
             THEN consumeLoop(data, includeDeleted, offset + 32, counter, output)
             ELSE IF raw.filename[1] = 0
                  THEN [err |-> "", entries |-> output]
                  ELSE consumeLoop(data, includeDeleted, offset + 32, counter,
                                   Append(output, IF isLfn THEN raw
                                                  ELSE [raw EXCEPT !.lfns = lfnCounter]))
         : raw \in {createFatFSDirectoryEntry(data, offset)}})

consumeAllDirectoryEntries(data, includeDeleted) ==
    consumeLoop(data, includeDeleted, 0, 0, <<>>)

\* constructClusterChain(initialCluster, enableAllocator, limitLength)
constructClusterChain(w, initialCluster, enableAllocator, limitLength) ==
    IF initialCluster = 0 THEN [err |-> "", ch |-> newChain(<<>>, enableAllocator, limitLength)]
    ELSE The({[err |-> c.err,
               ch |-> newChain([i \in 1..Len(c.links) |-> ClusterChainLink(c.links[i])],
                               enableAllocator, limitLength)]
              : c \in {getClusterChainFromFAT(w, initialCluster)}})

readAndConsumeAllDirectoryEntries(w, initialCluster) ==
    The({IF c.err # "" THEN [err |-> c.err, entries |-> <<>>]
         ELSE The({IF r.err # "" THEN [err |-> r.err, entries |-> <<>>]
                   ELSE consumeAllDirectoryEntries(r.data, FALSE)
                   : r \in {chainReadAll(w, c.ch)}})
         : c \in {constructClusterChain(w, initialCluster, FALSE, -1)}})

newCachedDirectory(initialCluster, underlying) ==
    [initialCluster |-> initialCluster, underlying |-> underlying,
     loaded |-> FALSE, children |-> <<>>]

\* the entries.map of getEntries: every entry goes to the heap, a directory
\* entry is wrapped in a new, not yet loaded CachedDirectory
RECURSIVE wrapEntries(_, _, _, _)
wrapEntries(w, rawEntries, i, children) ==
    IF i > Len(rawEntries) THEN [w |-> w, children |-> children]
    ELSE LET e == rawEntries[i]
             entId == Len(w.ents) + 1
             w1 == [w EXCEPT !.ents = Append(@, e)]
         IN  IF IsDirectoryAttr(e.attribs)
             THEN wrapEntries([w1 EXCEPT !.dirs = Append(@, newCachedDirectory(FirstCluster(e), entId))],
                              rawEntries, i + 1,
                              Append(children, [isDir |-> TRUE, id |-> Len(w.dirs) + 1]))
             ELSE wrapEntries(w1, rawEntries, i + 1, Append(children, [isDir |-> FALSE, id |-> entId]))

\* CachedDirectory.getEntries: loads the children from the device once
getEntries(w, d) ==
    IF w.dirs[d].loaded THEN w
    ELSE The({IF r.err # "" THEN Throw(w, r.err)
              ELSE The({[m.w EXCEPT !.dirs[d].loaded = TRUE, !.dirs[d].children = m.children]
                        : m \in {wrapEntries(w, r.entries, 1, <<>>)}})
              : r \in {readAndConsumeAllDirectoryEntries(
                           w, FirstCluster(w.ents[w.dirs[d].underlying]))}})

\* the entry object a child stands for in its parent
RawEntryId(w, child) == IF child.isDir THEN w.dirs[child.id].underlying ELSE child.id

\* CachedDirectory.readyMade(fat, entries, initialCluster, underlying) over
\* entry objects that are on the heap already.  A directory entry whose
\* first cluster is 0 is taken for the root and gets a ready-made copy of
\* the root's list; depth bounds the recursion that a root holding such an
\* entry never leaves.
RECURSIVE readyMadeChildren(_, _, _, _, _)
RECURSIVE readyMade(_, _, _, _, _)

readyMadeChildren(w, entIds, i, children, depth) ==
    IF i > Len(entIds) \/ ~OK(w) THEN [w |-> w, children |-> children]
    ELSE LET e == w.ents[entIds[i]]
         IN  IF ~IsDirectoryAttr(e.attribs)
             THEN readyMadeChildren(w, entIds, i + 1,
                                    Append(children, [isDir |-> FALSE, id |-> entIds[i]]), depth)
             ELSE IF FirstCluster(e) = 0
             THEN The({readyMadeChildren(r.w, entIds, i + 1,
                                         Append(children, [isDir |-> TRUE, id |-> r.id]), depth)
                       : r \in {readyMade(w, [k \in 1..Len(w.dirs[RootDir].children) |->
                                                 RawEntryId(w, w.dirs[RootDir].children[k])],
                                          0, entIds[i], depth + 1)}})
             ELSE readyMadeChildren(
                      [w EXCEPT !.dirs = Append(@, newCachedDirectory(FirstCluster(e), entIds[i]))],
                      entIds, i + 1, Append(children, [isDir |-> TRUE, id |-> Len(w.dirs) + 1]), depth)

readyMade(w, entIds, initialCluster, underlying, depth) ==
    IF depth > 3 THEN [w |-> Throw(w, "RangeError: Maximum call stack size exceeded"), id |-> 0]
    ELSE The({[w |-> [m.w EXCEPT !.dirs = Append(@, [initialCluster |-> initialCluster,
                                                     underlying |-> underlying,
                                                     loaded |-> TRUE,
                                                     children |-> m.children])],
               id |-> Len(m.w.dirs) + 1]
              : m \in {readyMadeChildren(w, entIds, 1, <<>>, depth)}})

\* a plausible slip: the directory is not put on the list
markAsAlteredNever(w, d) == w

markAsAltered(w, d) ==
    IF Contains(w.altered, d) THEN w ELSE [w EXCEPT !.altered = Append(@, d)]

\* CachedDirectory.findEntry(name) without a required type: r.child is the
\* first matching child, r.found tells whether there is one
RECURSIVE findLoop(_, _, _, _)
findLoop(w, children, name, i) ==
    IF i > Len(children) THEN [err |-> "", found |-> FALSE, child |-> RootRef]
    ELSE LET e == w.ents[RawEntryId(w, children[i])]
             compared == children[i].isDir \/ ~HasForbiddenAttr(e.attribs)
         IN  IF compared /\ splitExt83Throws(e.filenameStr)
             THEN [err |-> "FatError: Invalid 8.3 file name", found |-> FALSE, child |-> RootRef]
             ELSE IF compared /\ namesEqual(name, e.filenameStr)
                     /\ (children[i].isDir \/ e.attribs # ATTR_EQ_LFN)
                  THEN [err |-> "", found |-> TRUE, child |-> children[i]]
                  ELSE findLoop(w, children, name, i + 1)

\* r.w carries the lazily loaded children
findEntry(w, d, name) ==
    The({IF ~OK(w1) THEN [w |-> w1, found |-> FALSE, child |-> RootRef]
         ELSE The({[w |-> IF f.err # "" THEN Throw(w1, f.err) ELSE w1,
                    found |-> f.found, child |-> f.child]
                   : f \in {findLoop(w1, w1.dirs[d].children, name, 1)}})
         : w1 \in {getEntries(w, d)}})

\* path.split("/").filter(e => e)
RECURSIVE splitPath(_, _)
splitPath(path, current) ==
    IF path = <<>> THEN (IF current = <<>> THEN <<>> ELSE <<current>>)
    ELSE IF Head(path) = SLASH
         THEN (IF current = <<>> THEN <<>> ELSE <<current>>) \o splitPath(Tail(path), <<>>)
         ELSE splitPath(Tail(path), Append(current, Head(path)))

\* traverseEntries: r.roots is the list from the root to the entry, r.found
\* is false for the null result.  A step from an entry that is no directory
\* calls findEntry on a plain entry, which throws TypeError.
RECURSIVE traverseLoop(_, _, _, _)
traverseLoop(w, pathEntries, i, roots) ==
    IF i > Len(pathEntries) THEN [w |-> w, found |-> TRUE, roots |-> roots]
    ELSE IF ~roots[Len(roots)].isDir
         THEN [w |-> Throw(w, "TypeError"), found |-> FALSE, roots |-> roots]
    ELSE The({IF ~OK(f.w) \/ ~f.found THEN [w |-> f.w, found |-> FALSE, roots |-> roots]
              ELSE IF i # Len(pathEntries) /\ ~f.child.isDir
                   THEN [w |-> f.w, found |-> FALSE, roots |-> roots]
                   ELSE traverseLoop(f.w, pathEntries, i + 1, Append(roots, f.child))
              : f \in {findEntry(w, roots[Len(roots)].id,
                                 name83toNormal(nameNormalTo83(pathEntries[i])))}})

traverseEntries(w, path) == traverseLoop(w, splitPath(path, <<>>), 1, <<RootRef>>)

\* traverse: the last element of traverseEntries
traverse(w, path) ==
    The({[w |-> t.w, found |-> t.found, entry |-> t.roots[Len(t.roots)]]
         : t \in {traverseEntries(w, path)}})

-----------------------------------------------------------------------------
(* low-level.ts: redefineClusterChain, flush and load.                     *)

RECURSIVE ZeroFat(_, _, _)
ZeroFat(w, list, i) ==
    IF i > Len(list) \/ ~OK(w) THEN w
    ELSE ZeroFat(writeFATClusterEntry(w, list[i], 0), list, i + 1)

\* redefineClusterChain(oldInitialCluster, newChain), chain for newChain;
\* newChain[0] of an empty list is undefined: the entry write is out of range
redefineClusterChain(w, oldInitialCluster, chain) ==
    The({IF previous.err # "" THEN Throw(w, previous.err)
         ELSE The({IF chain = <<>> THEN Throw(w2, "RangeError")
                   ELSE writeFATClusterEntry(LinkFat(w2, chain, 2), chain[Len(chain)],
                                             EndOfChainMark(w.fatType))
                   : w2 \in {ZeroFat(
                       convertFreemapToFreelist(
                           [w EXCEPT !.freemap = [c \in DOMAIN w.freemap |->
                               IF Contains(chain, c) /\ ~Contains(previous.links, c) THEN FALSE
                               ELSE IF Contains(previous.links, c) /\ ~Contains(chain, c) THEN TRUE
                               ELSE w.freemap[c]]]),
                       previous.links, 1)}})
         : previous \in {getClusterChainFromFAT(w, oldInitialCluster)}})

\* phase 1 of flush: the altered sectors of the in-memory FAT go to every
\* copy, copy by copy
RECURSIVE flushFatCopy(_, _, _)
flushFatCopy(w, fat, i) ==
    IF i > Len(w.alteredFATSectors) THEN w
    ELSE LET usedFATSector == w.alteredFATSectors[i]
         IN  flushFatCopy(driverWrite(w, ReservedSectors + fat * SectorsPerFat + usedFATSector,
                                      fatSectorSlice(w.fatType, w.fat, usedFATSector)),
                          fat, i + 1)

RECURSIVE flushFat(_, _)
flushFat(w, fat) ==
    IF fat >= FatCount THEN [w EXCEPT !.alteredFATSectors = <<>>, !.fatAltered = FALSE]
    ELSE flushFat(flushFatCopy(w, fat, 1), fat + 1)

\* phase 2, the loop over the children of one altered directory
RECURSIVE flushSubentries(_, _, _, _, _)
flushSubentries(w, ch, children, i, remaining) ==
    IF i > Len(children) THEN [w |-> w, ch |-> ch, remaining |-> remaining]
    ELSE IF serializeThrows(w.ents[RawEntryId(w, children[i])])
         THEN [w |-> Throw(w, "RangeError"), ch |-> ch, remaining |-> remaining]
    ELSE The({The({IF ~OK(r.w)
                   THEN [w |-> r.w, ch |-> r.ch, remaining |-> remaining - Len(data)]
                   ELSE flushSubentries(r.w, r.ch, children, i + 1, remaining - Len(data))
                   : r \in {chainWrite(w, ch, data)}})
              : data \in {serializeFatFSDirectoryEntry(w.ents[RawEntryId(w, children[i])])}})

\* no link is taken off the chain
flushTrimNothing(w, ch, remaining, toFree, initialCluster) ==
    [w |-> w, ch |-> ch, remaining |-> remaining, toFree |-> toFree]

\* phase 2, the trimming loop: last links the entries no longer reach are
\* unlinked in the FAT at once and collected in toFree
RECURSIVE flushTrim(_, _, _, _, _)
flushTrim(w, ch, remaining, toFree, initialCluster) ==
    IF ch.links = <<>>
    THEN [w |-> Throw(w, "TypeError"), ch |-> ch, remaining |-> remaining, toFree |-> toFree]
    ELSE IF ~(remaining > ch.links[Len(ch.links)].length /\ initialCluster # -1) \/ ~OK(w)
    THEN [w |-> w, ch |-> ch, remaining |-> remaining, toFree |-> toFree]
    ELSE LET lastLink == ch.links[Len(ch.links)]
             links == SubSeq(ch.links, 1, Len(ch.links) - 1)
         IN  The({flushTrim(IF links # <<>> /\ OK(w1)
                            THEN writeFATClusterEntry(w1, links[Len(links)].index,
                                                      EndOfChainMark(w.fatType))
                            ELSE w1,
                            [ch EXCEPT !.links = links], remaining - lastLink.length,
                            Append(toFree, lastLink.index), initialCluster)
                  : w1 \in {writeFATClusterEntry(w, lastLink.index, 0)}})

\* phase 2 for one altered directory; r.w, r.toFree
flushDirectory(w, d, toFree) ==
    The({
    IF c.err # "" THEN [w |-> Throw(w, c.err), toFree |-> toFree]
    ELSE The({
    IF ~OK(w1) THEN [w |-> w1, toFree |-> toFree]
    ELSE The({
    IF ~OK(s.w) THEN [w |-> s.w, toFree |-> toFree]
    ELSE IF ~(s.remaining > 0) THEN [w |-> flushWritingBuffer(s.w, s.ch).w, toFree |-> toFree]
    ELSE The({
    IF ~OK(t.w) THEN [w |-> t.w, toFree |-> t.toFree]
    ELSE The({
    IF ~OK(z.w) THEN [w |-> z.w, toFree |-> t.toFree]
    ELSE [w |-> flushWritingBuffer(z.w, z.ch).w, toFree |-> t.toFree]
    : z \in {chainWrite(t.w, t.ch, Zeros(t.remaining))}})
    : t \in {flushTrim(s.w, s.ch, s.remaining, toFree, w.dirs[d].initialCluster)}})
    : s \in {flushSubentries(w1, c.ch, w1.dirs[d].children, 1, chainLength(c.ch))}})
    : w1 \in {getEntries(w, d)}})
    : c \in {IF w.dirs[d].initialCluster = -1
             THEN [err |-> "", ch |-> newChain(<<RootRegionLink>>, FALSE, -1)]
             ELSE constructClusterChain(w, w.dirs[d].initialCluster, TRUE, -1)}})

\* the list is iterated as it stands: nothing in the loop marks a directory
RECURSIVE flushDirectories(_, _, _)
flushDirectories(w, i, toFree) ==
    IF i > Len(w.altered) THEN [w |-> w, toFree |-> toFree]
    ELSE The({IF ~OK(r.w) THEN r ELSE flushDirectories(r.w, i + 1, r.toFree)
              : r \in {flushDirectory(w, w.altered[i], toFree)}})

\* flush: an exception in phase 2 leaves the unlinked clusters out of the
\* freemap and the list of altered directories in place
flush(w) ==
    IF ~w.isWritable THEN Throw(w, "FatError: read-only")
    ELSE The({IF ~OK(r.w) THEN r.w
              ELSE [addClusterListToFreelist(r.w, r.toFree) EXCEPT !.altered = <<>>]
              : r \in {flushDirectories(IF w.fatAltered THEN flushFat(w, 0) ELSE w, 1, <<>>)}})

\* a plausible slip: only the first sector of each copy is compared
fatBackupInvalidFirstSector(dev, rawFat) ==
    \E alternativeFat \in 1..(FatCount - 1) :
        readSectors(dev, ReservedSectors + SectorsPerFat * alternativeFat, 1)
            # SubSeq(rawFat, 1, BytesPerSector)

\* the coherency loop of load: some further copy differs from the first
fatBackupInvalid(dev, rawFat) ==
    \E alternativeFat \in 1..(FatCount - 1) :
        readSectors(dev, ReservedSectors + SectorsPerFat * alternativeFat, SectorsPerFat)
            # rawFat

\* load: the FAT is read from the first copy, the copies are compared
\* unless the check is bypassed, the root is read and the allocator built.
\* The geometry above stands for the parsed boot sector.  A root entry that
\* is a directory with first cluster 0 makes readyMade read fat.root before
\* there is one.
load(dev, fatType, isWritable, bypassCoherencyCheck) ==
    The({The({
    IF ~bypassCoherencyCheck /\ fatBackupInvalid(dev, rawFat)
    THEN Throw(w0, "FatError: Fat backup invalid")
    ELSE The({
         IF root.err # "" THEN Throw(w0, root.err)
         ELSE IF \E i \in 1..Len(root.entries) :
                    IsDirectoryAttr(root.entries[i].attribs) /\ FirstCluster(root.entries[i]) = 0
              THEN Throw(w0, "TypeError")
         ELSE The({convertFreemapToFreelist([m.w EXCEPT !.dirs[RootDir].children = m.children])
                   : m \in {readyMadeChildren([w0 EXCEPT !.ents = root.entries],
                                              [i \in 1..Len(root.entries) |-> i], 1, <<>>, 0)}})
         : root \in {IF fatType = "Fat16"
                     THEN consumeAllDirectoryEntries(
                              readSectors(dev, dataSectorOffset,
                                          (MaxRootDirEntries * DirEntrySize) \div BytesPerSector),
                              FALSE)
                     ELSE readAndConsumeAllDirectoryEntries(w0, RootDirCluster)}})
    : w0 \in {The({[fatType |-> fatType, isWritable |-> isWritable, fat |-> fat,
                    alteredFATSectors |-> <<>>, fatAltered |-> FALSE,
                    freemap |-> allocatorInit(fatType, fat), freelist |-> <<>>,
                    dev |-> dev, writes |-> <<>>, err |-> "",
                    ents |-> <<>>, altered |-> <<>>,
                    dirs |-> <<[initialCluster |-> IF fatType = "Fat16" THEN -1 ELSE RootDirCluster,
                                underlying |-> 0, loaded |-> TRUE, children |-> <<>>]>>]
                   : fat \in {DecodeFat(fatType, rawFat)}})}})
    : rawFat \in {readSectors(dev, ReservedSectors, SectorsPerFat)}})

-----------------------------------------------------------------------------
(* high-level.ts: FatFilesystem and FatFSFileHandle.  A handle is          *)
(* [chain, writable, underlying, parent]: its Chain, its flag, the entry   *)
(* object and the directory object it was opened in.                       *)

NoHandle == [chain |-> newChain(<<>>, FALSE, -1), writable |-> FALSE, underlying |-> 0, parent |-> 0]

\* tree.slice(-2) of traverseEntries: parent and entry, absent for the root
open(w, path, writable) ==
    IF writable /\ ~w.isWritable
    THEN [w |-> Throw(w, "FatError: read-only"), found |-> FALSE, handle |-> NoHandle]
    ELSE The({
         LET n == Len(t.roots)
             entry == t.w.ents[t.roots[n].id]
         IN  IF ~OK(t.w) \/ ~t.found \/ n < 2 \/ t.roots[n].isDir
             THEN [w |-> t.w, found |-> FALSE, handle |-> NoHandle]
             ELSE The({IF c.err # ""
                       THEN [w |-> Throw(t.w, c.err), found |-> FALSE, handle |-> NoHandle]
                       ELSE [w |-> t.w, found |-> TRUE,
                             handle |-> [chain |-> c.ch, writable |-> writable,
                                         underlying |-> t.roots[n].id,
                                         parent |-> t.roots[n - 1].id]]
                       : c \in {constructClusterChain(t.w, FirstCluster(entry), TRUE,
                                                      entry.fileSize)}})
         : t \in {traverseEntries(w, path)}})

create(w, path) ==
    The({
    IF ~OK(existingEntry.w) \/ existingEntry.found
    THEN [w |-> existingEntry.w, found |-> FALSE, handle |-> NoHandle]
    ELSE The({
         IF ~OK(p.w) \/ ~p.found \/ ~p.entry.isDir
         THEN [w |-> p.w, found |-> FALSE, handle |-> NoHandle]
         ELSE The({
              IF ~OK(w1) THEN [w |-> w1, found |-> FALSE, handle |-> NoHandle]
              ELSE The({[w |-> w2, found |-> TRUE,
                         handle |-> [chain |-> constructClusterChain(w2, 0, TRUE, -1).ch,
                                     writable |-> TRUE,
                                     underlying |-> Len(w1.ents) + 1, parent |-> p.entry.id]]
                        : w2 \in {markAsAltered(
                                     [w1 EXCEPT !.ents = Append(@, newFatFSDirectoryEntry(
                                                    nameNormalTo83(SubSeq(path, lastSlash + 1, Len(path))),
                                                    ATTR_NONE, 0, 0)),
                                                !.dirs[p.entry.id].children =
                                                    Append(@, [isDir |-> FALSE, id |-> Len(w1.ents) + 1])],
                                     p.entry.id)}})
              : w1 \in {getEntries(p.w, p.entry.id)}})
         : p \in {IF lastSlash = 0 THEN [w |-> existingEntry.w, found |-> TRUE, entry |-> RootRef]
                  ELSE traverse(existingEntry.w, SubSeq(path, 1, lastSlash - 1))}})
    : existingEntry \in {traverse(w, path)},
      lastSlash \in {LastIndexOf(path, SLASH, Len(path))}})

\* CachedDirectory.listDir: the entries.map, then the filter for strings.  A
\* directory is named with a trailing slash; ".", "..", long-name parts and
\* entries with a forbidden attribute are left out.
RECURSIVE listNames(_, _, _)
listNames(w, children, i) ==
    IF i > Len(children) THEN [err |-> "", names |-> <<>>]
    ELSE LET c == children[i]
             e == w.ents[RawEntryId(w, c)]
             skipped == ~c.isDir /\ (e.attribs = ATTR_EQ_LFN \/ HasForbiddenAttr(e.attribs))
         IN  IF ~skipped /\ splitExt83Throws(e.filenameStr)
             THEN [err |-> "FatError: Invalid 8.3 file name", names |-> <<>>]
             ELSE The({
                  IF rest.err # "" THEN rest
                  ELSE [err |-> "",
                        names |-> (IF skipped THEN <<>>
                                   ELSE IF ~c.isDir THEN <<name83toNormal(e.filenameStr)>>
                                   ELSE IF name83toNormal(e.filenameStr) \in {<<DOT>>, <<DOT, DOT>>}
                                        THEN <<>>
                                        ELSE <<name83toNormal(e.filenameStr) \o <<SLASH>>>>)
                                  \o rest.names]
                  : rest \in {listNames(w, children, i + 1)}})

\* FatFilesystem.listDir: r.found is false for the null result
listDir(w, path) ==
    The({
    IF ~OK(t.w) \/ ~t.found \/ ~t.entry.isDir THEN [w |-> t.w, found |-> FALSE, names |-> <<>>]
    ELSE The({
         IF ~OK(w1) THEN [w |-> w1, found |-> FALSE, names |-> <<>>]
         ELSE The({[w |-> IF l.err # "" THEN Throw(w1, l.err) ELSE w1,
                    found |-> l.err = "", names |-> l.names]
                   : l \in {listNames(w1, w1.dirs[t.entry.id].children, 1)}})
         : w1 \in {getEntries(t.w, t.entry.id)}})
    : t \in {traverse(w, path)}})

getSizeOf(w, path) ==
    The({IF ~OK(t.w) \/ ~t.found \/ t.entry.isDir THEN [w |-> t.w, found |-> FALSE, size |-> 0]
         ELSE [w |-> t.w, found |-> TRUE, size |-> t.w.ents[t.entry.id].fileSize]
         : t \in {traverse(w, path)}})

getStats(w) ==
    LET totalClusters == FatEntries(w.fatType)
        freeClusters == Cardinality({c \in DOMAIN w.freemap : w.freemap[c]})
    IN  [totalClusters |-> totalClusters, freeClusters |-> freeClusters,
         totalBytes |-> totalClusters * clusterSizeInBytes,
         freeBytes |-> freeClusters * clusterSizeInBytes]

\* a plausible slip: one entry more is let through
holdsMoreThanThreeEntries(w, d) == Len(w.dirs[d].children) > 3

\* the test of delete for a directory with children: 2 entries, "." and ".."
holdsMoreThanDotEntries(w, d) == Len(w.dirs[d].children) > 2

\* delete: the chain is read from the first cluster of the entry whatever
\* that is, 0 for a file that owns no cluster
delete(w, path) ==
    The({
    IF ~OK(t.w) \/ ~t.found THEN t.w
    ELSE IF Len(t.roots) < 2 THEN Throw(t.w, "FatError: File not found!")
    ELSE
    LET entry == t.roots[Len(t.roots)]
        parent == t.roots[Len(t.roots) - 1]
    IN  The({
        IF ~OK(w1) THEN w1
        ELSE IF entry.isDir /\ holdsMoreThanDotEntries(w1, entry.id)
        THEN Throw(w1, "FatError: Cannot delete a non-empty directory.")
        ELSE
        LET rawId == RawEntryId(w1, entry)
            at == IndexOf(w1.dirs[parent.id].children, entry, 1)
        IN  The({The({
            IF chain.err # "" THEN Throw(w3, chain.err)
            ELSE ZeroFat(addClusterListToFreelist(w3, chain.links), chain.links, 1)
            : chain \in {getClusterChainFromFAT(w3, FirstCluster(w3.ents[rawId]))}})
            : w3 \in {[markAsAltered([w1 EXCEPT !.ents[rawId].filename[1] = FAT_MARKER_DELETED,
                                                !.ents[rawId].filenameStr = <<>>], parent.id)
                          EXCEPT !.dirs[parent.id].children =
                                     Splice(@, IF at = 0 THEN Len(@) ELSE at, 1)]}})
        : w1 \in {IF entry.isDir THEN getEntries(t.w, entry.id) ELSE t.w}})
    : t \in {traverseEntries(w, path)}})

\* Array.prototype.splice(start, deleteCount) with a start that may be
\* negative: it then counts from the end
spliceFrom(s, start, deleteCount) ==
    LET from == IF start < 0 THEN (IF Len(s) + start < 0 THEN 0 ELSE Len(s) + start)
                ELSE (IF start > Len(s) THEN Len(s) ELSE start)
        n == IF deleteCount > Len(s) - from THEN Len(s) - from ELSE deleteCount
    IN  SubSeq(s, 1, from) \o SubSeq(s, from + n + 1, Len(s))

\* rename: the path of the old parent is cut from path at the last slash of
\* newPath.  indexOf is -1 for an entry the old parent does not hold, and
\* splice then counts from the end of the list.  The name is set before
\* the old parent is asked for its entries.
rename(w, path, newPath) ==
    The({
    IF ~OK(existingNewTree.w) THEN existingNewTree.w
    ELSE IF existingNewTree.found
    THEN Throw(existingNewTree.w, "FatError: File already exists!")
    ELSE The({
    IF ~OK(newParent.w) THEN newParent.w
    ELSE The({
    IF ~OK(entry.w) THEN entry.w
    ELSE The({
    IF ~OK(oldParent.w) THEN oldParent.w
    ELSE IF ~newParent.found \/ ~newParent.entry.isDir
    THEN Throw(oldParent.w, "FatError: Cannot move an entry into a file, not a directory!")
    ELSE IF ~entry.found THEN Throw(oldParent.w, "FatError: File doens't exist!")
    ELSE IF RawEntryId(oldParent.w, entry.entry) = 0 THEN Throw(oldParent.w, "TypeError")
    ELSE The({
    IF ~oldParent.found \/ ~oldParent.entry.isDir THEN Throw(w1, "TypeError")
    ELSE The({
    IF ~OK(w2) THEN w2
    ELSE The({
    IF ~OK(w3) THEN w3
    ELSE markAsAltered([w3 EXCEPT !.dirs[newParent.entry.id].children = Append(@, entry.entry)],
                       newParent.entry.id)
    : w3 \in {getEntries(
                 markAsAltered(
                     [w2 EXCEPT !.dirs[oldParent.entry.id].children =
                                    spliceFrom(@, IndexOf(@, entry.entry, 1) - 1
                                                      - w2.ents[RawEntryId(w2, entry.entry)].lfns,
                                               1 + w2.ents[RawEntryId(w2, entry.entry)].lfns),
                                !.ents[RawEntryId(w2, entry.entry)].lfns = 0],
                     oldParent.entry.id),
                 newParent.entry.id)}})
    : w2 \in {getEntries(w1, oldParent.entry.id)}})
    : w1 \in {[oldParent.w EXCEPT !.ents[RawEntryId(oldParent.w, entry.entry)].filenameStr =
                                      nameNormalTo83(SubSeq(newPath, lastSlash + 1, Len(newPath)))]}})
    : oldParent \in {traverse(entry.w, SubSeq(path, 1, IF lastSlash - 1 > Len(path)
                                                        THEN Len(path) ELSE lastSlash - 1))}})
    : entry \in {traverse(newParent.w, path)}})
    : newParent \in {IF lastSlash <= 1
                     THEN [w |-> existingNewTree.w, found |-> TRUE, entry |-> RootRef]
                     ELSE traverse(existingNewTree.w, SubSeq(newPath, 1, lastSlash - 1))}})
    : existingNewTree \in {traverseEntries(w, newPath)},
      lastSlash \in {LastIndexOf(newPath, SLASH, Len(newPath))}})

\* mkdir: findEntry is asked for the padded 8.3 name, which namesEqual
\* compares as a normal name.  rootCluster is a link object, so the test
\* "!rootCluster" is false whatever its index.  A parent path that names no directory leaves
\* parent null or a plain entry, and parent.findEntry throws.
mkdir(w, path) ==
    LET lastSlash == LastIndexOf(path, SLASH, Len(path))
        parentPath == IF lastSlash = 0 THEN <<>> ELSE SubSeq(path, 1, lastSlash - 1)
    IN  The({
    IF ~OK(p.w) THEN p.w
    ELSE IF ~p.found \/ ~p.entry.isDir THEN Throw(p.w, "TypeError")
    ELSE The({
    IF ~OK(f.w) \/ f.found THEN f.w
    ELSE The({
    IF ~OK(a.w) THEN a.w
    ELSE IF w.fatType = "Fat16" /\ a.links[1] > 65535
    THEN Throw(a.w, "Error: Cannot allocate next cluster!")
    ELSE The({
    IF ~OK(w1) THEN w1
    ELSE The({
    IF ~OK(cachedEntry.w) THEN cachedEntry.w
    ELSE The({
    IF ~OK(w3) THEN w3
    ELSE markAsAltered(
             markAsAltered([w3 EXCEPT !.dirs[p.entry.id].children =
                                         Append(@, [isDir |-> TRUE, id |-> cachedEntry.id])],
                           p.entry.id),
             cachedEntry.id)
    : w3 \in {getEntries(cachedEntry.w, p.entry.id)}})
    : cachedEntry \in {readyMade(
          [w1 EXCEPT !.ents = @ \o
              <<newFatFSDirectoryEntry(name, ATTR_DIRECTORY, a.links[1], 0),
                newFatFSDirectoryEntry(PadTo(<<DOT>>, 11), ATTR_DIRECTORY, a.links[1], 0),
                newFatFSDirectoryEntry(PadTo(<<DOT, DOT>>, 11), ATTR_DIRECTORY,
                    IF a.w.dirs[p.entry.id].initialCluster = -1 THEN 0
                    ELSE a.w.dirs[p.entry.id].initialCluster, 0)>>],
          <<Len(w1.ents) + 2, Len(w1.ents) + 3>>, a.links[1], Len(w1.ents) + 1, 0)}})
    : w1 \in {linkWrite(a.w, ClusterChainLink(a.links[1]), Zeros(clusterSizeInBytes))}})
    : a \in {allocate(f.w, -1, 1)}})
    : f \in {findEntry(p.w, p.entry.id, name)}})
    : p \in {IF parentPath = <<>> THEN [w |-> w, found |-> TRUE, entry |-> RootRef]
             ELSE traverse(w, parentPath)},
      name \in {nameNormalTo83(SubSeq(path, lastSlash + 1, Len(path)))}})

flushMetadataChanges(w) == flush(w)

\* FatFSFileHandle.write: the writable flag of the handle is not consulted
handleWrite(w, h, data) ==
    The({[w |-> r.w, handle |-> [h EXCEPT !.chain = r.ch]] : r \in {chainWrite(w, h.chain, data)}})

handleRead(w, h, bytes) ==
    The({[err |-> r.err, handle |-> [h EXCEPT !.chain = r.ch], data |-> r.data]
         : r \in {chainRead(w, h.chain, bytes)}})

handleReadAll(w, h) ==
    The({[err |-> r.err, handle |-> [h EXCEPT !.chain = r.ch], data |-> r.data]
         : r \in {chainReadAll(w, h.chain)}})

handleSeek(w, h, to) ==
    The({[w |-> r.w, handle |-> [h EXCEPT !.chain = r.ch]] : r \in {chainSeek(w, h.chain, to)}})

\* FatFSFileHandle.close
handleClose(w, h) ==
    IF ~h.writable THEN [w |-> w, handle |-> h]
    ELSE The({
         IF ~OK(f.w) THEN [w |-> f.w, handle |-> [h EXCEPT !.chain = f.ch]]
         ELSE
         LET e == f.w.ents[h.underlying]
             fileSize == f.ch.totalLength
             wasEmpty == e.firstClusterAddressHigh = 0 /\ e.firstClusterAddressLow = 0
                            /\ fileSize # 0
             e1 == [e EXCEPT !.fileSize = fileSize]
         IN  IF wasEmpty /\ f.ch.links = <<>>
             THEN [w |-> Throw([f.w EXCEPT !.ents[h.underlying] = e1], "TypeError"),
                   handle |-> [h EXCEPT !.chain = f.ch]]
             ELSE [w |-> markAsAltered(
                           [f.w EXCEPT !.ents[h.underlying] =
                               IF wasEmpty
                               THEN [e1 EXCEPT
                                       !.firstClusterAddressLow = f.ch.links[1].index % 65536,
                                       !.firstClusterAddressHigh =
                                           (f.ch.links[1].index \div 65536) % 65536]
                               ELSE e1],
                           h.parent),
                   handle |-> [h EXCEPT !.chain = f.ch]]
         : f \in {flushWritingBuffer(w, h.chain)}})

-----------------------------------------------------------------------------
(* The mounted images.  Every image is a legal volume: both FAT copies     *)
(* equal, entries 0 and 1 reserved, every chain ended, every directory     *)
(* ended by a 0x00 slot.  Clusters outside the layout carry the bad-cluster*)
(* mark, so the free space is the clusters named here.                     *)

MediaEntry(ft) == endOfChain(ft)[1]
BadCluster(ft) == endOfChain(ft)[1] - 1

\* the image in use: a root with the directory A, whose chain of two
\* clusters holds ".", ".." and the empty file Z, the file X of three bytes
\* and the empty file Y
DirAFirst == 8
DirASecond == 9
FileXCluster == 5
FreeClusters == (3..9) \ {DirAFirst, DirASecond, FileXCluster}
FileXBytes == <<7, 8, 9>>

NameA == <<65>>
NameX == <<88>>
NameY == <<89>>
NameZ == <<90>>

ImageFat(ft) ==
    [c \in 0..(FatEntries(ft) - 1) |->
        IF c = 0 THEN MediaEntry(ft)
        ELSE IF c = 1 THEN EndOfChainMark(ft)
        ELSE IF c = RootDirCluster /\ ft = "Fat32" THEN EndOfChainMark(ft)
        ELSE IF c = DirAFirst THEN DirASecond
        ELSE IF c \in {DirASecond, FileXCluster} THEN EndOfChainMark(ft)
        ELSE IF c \in FreeClusters THEN 0
        ELSE BadCluster(ft)]

RECURSIVE SerializeAll(_)
SerializeAll(entries) ==
    IF entries = <<>> THEN <<>>
    ELSE serializeFatFSDirectoryEntry(Head(entries)) \o SerializeAll(Tail(entries))

ImageRoot ==
    <<newFatFSDirectoryEntry(nameNormalTo83(NameA), ATTR_DIRECTORY, DirAFirst, 0),
      newFatFSDirectoryEntry(nameNormalTo83(NameX), ATTR_NONE, FileXCluster, Len(FileXBytes)),
      newFatFSDirectoryEntry(nameNormalTo83(NameY), ATTR_NONE, 0, 0)>>

ImageDirA ==
    <<newFatFSDirectoryEntry(PadTo(<<DOT>>, 11), ATTR_DIRECTORY, DirAFirst, 0),
      newFatFSDirectoryEntry(PadTo(<<DOT, DOT>>, 11), ATTR_DIRECTORY, 0, 0),
      newFatFSDirectoryEntry(nameNormalTo83(NameZ), ATTR_NONE, 0, 0)>>

PadSector(bytes) == SetAt(Zeros(BytesPerSector), bytes, 0)

\* the device of the image; damaged makes the second FAT copy differ from
\* the first in its last entry
ImageDev(ft, damaged) ==
    LET fat == ImageFat(ft)
        rootSector == IF ft = "Fat16" THEN dataSectorOffset ELSE clusterToSector(ft, RootDirCluster)
        copy(k) == [s \in 0..(SectorsPerFat - 1) |->
                       IF damaged /\ k = 1 /\ s = SectorsPerFat - 1
                       THEN SetAt(fatSectorSlice(ft, fat, s), <<0>>, BytesPerSector - 1)
                       ELSE fatSectorSlice(ft, fat, s)]
        fatSectors == {ReservedSectors + k * SectorsPerFat + s :
                          k \in 0..(FatCount - 1), s \in 0..(SectorsPerFat - 1)}
        dataSectors == {rootSector, clusterToSector(ft, DirAFirst), clusterToSector(ft, FileXCluster)}
    IN  [sec \in fatSectors \cup dataSectors |->
            IF sec \in fatSectors
            THEN copy((sec - ReservedSectors) \div SectorsPerFat)[(sec - ReservedSectors) % SectorsPerFat]
            ELSE IF sec = rootSector THEN PadSector(SerializeAll(ImageRoot))
            ELSE IF sec = clusterToSector(ft, DirAFirst) THEN PadSector(SerializeAll(ImageDirA))
            ELSE PadSector(FileXBytes)]

-----------------------------------------------------------------------------
(* The state machine: one mounted filesystem, its open handles, and a      *)
(* record of the last call.                                                *)

VARIABLES
    fs,         \* the mounted filesystem and its device (the record w above)
    handles,    \* the open handles, each with the path and the bytes written through it
    last,       \* the last call: operation, arguments, exception, result, state before
    expect,     \* per path, the bytes of a file created, written and closed
    files,      \* the entry objects create made, and those a handle wrote to
    steps       \* number of calls made

vars == <<fs, handles, last, expect, files, steps>>

MaxOps == 4
MaxHandles == 2
LongLength == 130

PathF == <<SLASH, 70>>
PathG == <<SLASH, 71>>
PathX == <<SLASH>> \o NameX
PathY == <<SLASH>> \o NameY
PathA == <<SLASH>> \o NameA
PathD == <<SLASH, 68>>
PathAF == PathA \o PathF
PathAZ == PathA \o <<SLASH>> \o NameZ
PathAD == PathA \o PathD
PathDF == PathD \o PathF

Paths == {PathF, PathG, PathX, PathY, PathA, PathD, PathAF, PathAZ, PathAD, PathDF}
CreatePaths == {PathF, PathG, PathAF}
DeletePaths == {PathY, PathX, PathF, PathD, PathAZ}
MkdirPaths == {PathD, PathAD}
OpenPaths == {PathX, PathF}

LongData == [i \in 1..LongLength |-> 1 + (i % 3)]
WriteData == {<<1>>, <<2, 3>>, LongData}

NoCall == [op |-> "mount", path |-> <<>>, err |-> "", ret |-> TRUE, data |-> <<>>, pre |-> <<>>]

Mounted(ft, isWritable, damaged, bypass) == load(ImageDev(ft, damaged), ft, isWritable, bypass)

InitWith(fatTypes, writables, damages) ==
    /\ \E ft \in fatTypes, isWritable \in writables, damaged \in damages :
          /\ OK(Mounted(ft, isWritable, damaged, damaged))
          /\ fs = Mounted(ft, isWritable, damaged, damaged)
    /\ handles = <<>>
    /\ last = NoCall
    /\ expect = [p \in Paths |-> <<>>]
    /\ files = [made |-> {}, touched |-> {}]
    /\ steps = 0

Init == InitWith(FatTypes, {TRUE}, {FALSE})

\* the state a call starts from, and the state it leaves
Begin == [fs EXCEPT !.writes = <<>>]
Settle(w) == [w EXCEPT !.err = ""]
Call(op, path, w, ret, data) ==
    [op |-> op, path |-> path, err |-> w.err, ret |-> ret, data |-> data, pre |-> fs]

\* the file the path names now is the object the handle was made for
NamesEntry(w, path, entId) ==
    LET t == traverse(w, path)
    IN  OK(t.w) /\ t.found /\ ~t.entry.isDir /\ t.entry.id = entId

Create(path) ==
    /\ steps < MaxOps
    /\ Len(handles) < MaxHandles
    /\ \E r \in {create(Begin, path)} :
           /\ fs' = Settle(r.w)
           /\ handles' = IF r.found
                         THEN Append(handles, [handle |-> r.handle, path |-> path,
                                               fresh |-> TRUE, written |-> <<>>])
                         ELSE handles
           /\ last' = Call("create", path, r.w, r.found, <<>>)
           /\ files' = IF r.found THEN [files EXCEPT !.made = @ \cup {r.handle.underlying}]
                       ELSE files
    /\ steps' = steps + 1
    /\ UNCHANGED expect

Open(path, writable) ==
    /\ steps < MaxOps
    /\ Len(handles) < MaxHandles
    /\ \E r \in {open(Begin, path, writable)} :
           /\ fs' = Settle(r.w)
           /\ handles' = IF r.found
                         THEN Append(handles, [handle |-> r.handle, path |-> path,
                                               fresh |-> FALSE, written |-> <<>>])
                         ELSE handles
           /\ last' = Call(IF writable THEN "open writable" ELSE "open", path, r.w, r.found, <<>>)
    /\ steps' = steps + 1
    /\ UNCHANGED <<expect, files>>

Delete(path) ==
    /\ steps < MaxOps
    /\ \E t \in {traverse(Begin, path)}, w \in {delete(Begin, path)} :
           /\ fs' = Settle(w)
           /\ last' = Call("delete", path, w, OK(t.w) /\ t.found, <<>>)
           /\ expect' = IF OK(w) /\ t.found THEN [expect EXCEPT ![path] = <<>>] ELSE expect
    /\ steps' = steps + 1
    /\ UNCHANGED <<handles, files>>

Mkdir(path) ==
    /\ steps < MaxOps
    /\ \E w \in {mkdir(Begin, path)} :
           /\ fs' = Settle(w)
           /\ last' = Call("mkdir", path, w, OK(w), <<>>)
    /\ steps' = steps + 1
    /\ UNCHANGED <<handles, expect, files>>

Write(i, data) ==
    /\ steps < MaxOps
    /\ i \in 1..Len(handles)
    /\ \E r \in {handleWrite(Begin, handles[i].handle, data)} :
           /\ fs' = Settle(r.w)
           /\ handles' = [handles EXCEPT ![i].handle = r.handle,
                                         ![i].written = IF OK(r.w) THEN @ \o data ELSE @]
           /\ last' = Call("write", handles[i].path, r.w, OK(r.w), data)
    /\ expect' = IF handles[i].fresh THEN expect
                 ELSE [expect EXCEPT ![handles[i].path] = <<>>]
    /\ files' = [files EXCEPT !.touched = @ \cup {handles[i].handle.underlying}]
    /\ steps' = steps + 1

Close(i) ==
    /\ steps < MaxOps
    /\ i \in 1..Len(handles)
    /\ \E r \in {handleClose(Begin, handles[i].handle)} :
           /\ fs' = Settle(r.w)
           /\ handles' = IF OK(r.w) THEN Splice(handles, i, 1)
                         ELSE [handles EXCEPT ![i].handle = r.handle]
           /\ last' = Call("close", handles[i].path, r.w, OK(r.w), handles[i].written)
           /\ expect' = IF OK(r.w) /\ handles[i].fresh /\ handles[i].written # <<>>
                           /\ NamesEntry(r.w, handles[i].path, handles[i].handle.underlying)
                        THEN [expect EXCEPT ![handles[i].path] = handles[i].written]
                        ELSE expect
    /\ steps' = steps + 1
    /\ UNCHANGED files

Flush ==
    /\ steps < MaxOps
    /\ \E w \in {flushMetadataChanges(Begin)} :
           /\ fs' = Settle(w)
           /\ last' = Call("flush", <<>>, w, OK(w), <<>>)
    /\ steps' = steps + 1
    /\ UNCHANGED <<handles, expect, files>>

Rename(path, newPath) ==
    /\ steps < MaxOps
    /\ \E w \in {rename(Begin, path, newPath)} :
           /\ fs' = Settle(w)
           /\ last' = Call("rename", path, w, OK(w), newPath)
    /\ steps' = steps + 1
    /\ UNCHANGED <<handles, expect, files>>

Next ==
    \/ \E path \in CreatePaths : Create(path)
    \/ \E path \in OpenPaths, writable \in BOOLEAN : Open(path, writable)
    \/ \E path \in DeletePaths : Delete(path)
    \/ \E path \in MkdirPaths : Mkdir(path)
    \/ \E i \in 1..MaxHandles, data \in WriteData : Write(i, data)
    \/ \E i \in 1..MaxHandles : Close(i)
    \/ Flush

Spec == Init /\ [][Next]_vars

\* the same machine on a volume whose driver has no writeSectors
InitReadOnly == InitWith(FatTypes, {FALSE}, {FALSE})
SpecReadOnly == InitReadOnly /\ [][Next]_vars

-----------------------------------------------------------------------------
(* What the properties below speak about.                                  *)

Clusters(w) == 2..(FatEntries(w.fatType) - 1)

\* the directories listed in a cached directory, "." and ".." left out
SubDirs(w, d) ==
    {w.dirs[d].children[i].id : i \in
        {k \in 1..Len(w.dirs[d].children) :
            /\ w.dirs[d].children[k].isDir
            /\ name83toNormal(w.ents[RawEntryId(w, w.dirs[d].children[k])].filenameStr)
                   \notin {<<DOT>>, <<DOT, DOT>>}}}

\* the directories of the tree: the root, the directories listed in it and
\* the directories listed in those
LiveDirs(w) ==
    {RootDir} \cup SubDirs(w, RootDir) \cup UNION {SubDirs(w, d) : d \in SubDirs(w, RootDir)}

\* the entry objects of the files listed in the cached directories
LiveFiles(w) ==
    UNION {{w.dirs[d].children[i].id : i \in
               {k \in 1..Len(w.dirs[d].children) : ~w.dirs[d].children[k].isDir}} :
           d \in LiveDirs(w)}

\* the entry objects of the directories of the tree
LiveDirEntries(w) == {w.dirs[d].underlying : d \in LiveDirs(w) \ {RootDir}}

\* the clusters an entry owns: none for an empty file with first cluster 0,
\* else the chain the driver reads from the FAT at the first cluster
OwnedChain(w, e) ==
    IF FirstCluster(e) = 0 /\ e.fileSize = 0 /\ ~IsDirectoryAttr(e.attribs)
    THEN [err |-> "", links |-> <<>>]
    ELSE getClusterChainFromFAT(w, FirstCluster(e))

FreemapMirrorsFat(w) == \A c \in Clusters(w) : w.freemap[c] <=> (w.fat[c] = 0)

Succeeded(op) == last.op = op /\ last.err = ""

-----------------------------------------------------------------------------
(* C1.  After any sequence of allocator-affecting operations, for every    *)
(* cluster c >= 2, freemap[c] is true exactly when the in-memory FAT entry *)
(* of c is 0.  The statement as claimed, which the model refutes: cluster  *)
(* 0, freed by the delete of an empty file, is handed to a growing         *)
(* directory, whose last cluster then gets FAT value 0 as its link while   *)
(* its freemap entry stays false.                                          *)
C1_FreemapMirrorsFatAfterFlush ==
    (last.op = "flush") => FreemapMirrorsFat(fs)

(* C2.  After any sequence of create, write, close, delete, mkdir and      *)
(* flush, freemap[0] and freemap[1] are false, FAT entries 0 and 1 are as  *)
(* mounted, and no chain of a handle holds cluster 0 or 1.  The statement  *)
(* as claimed, which the model refutes: delete of a file that owns no      *)
(* cluster frees cluster 0 and zeroes its FAT entry.                       *)
C2_ReservedClustersUntouched ==
    /\ ~fs.freemap[0] /\ ~fs.freemap[1]
    /\ fs.fat[0] = ImageFat(fs.fatType)[0] /\ fs.fat[1] = ImageFat(fs.fatType)[1]
    /\ \A i \in 1..Len(handles) : \A k \in 1..Len(handles[i].handle.chain.links) :
           handles[i].handle.chain.links[k].index \notin {0, 1}

\* what a directory entry says: name, attributes, first cluster, size
Says(e) == <<e.filenameStr, e.attribs, FirstCluster(e), e.fileSize>>

\* the entries of a cached directory, and the entries a fresh mount m of the
\* device reads at the place of that directory
CachedListing(w, d) ==
    [i \in 1..Len(w.dirs[d].children) |-> Says(w.ents[RawEntryId(w, w.dirs[d].children[i])])]

DeviceListing(m, w, d) ==
    IF d = RootDir THEN [err |-> "", says |-> CachedListing(m, RootDir)]
    ELSE LET r == readAndConsumeAllDirectoryEntries(m, w.dirs[d].initialCluster)
         IN  [err |-> r.err, says |-> [i \in 1..Len(r.entries) |-> Says(r.entries[i])]]

Remounted(w) == load(w.dev, w.fatType, TRUE, FALSE)

RemountAgrees(w) ==
    \E m \in {Remounted(w)} :
        /\ OK(m)
        /\ m.fat = w.fat
        /\ \A d \in LiveDirs(w) : w.dirs[d].loaded =>
               \E l \in {DeviceListing(m, w, d)} : l.err = "" /\ l.says = CachedListing(w, d)

ReadsBack(m, path, bytes) ==
    /\ OK(m)
    /\ \E size \in {getSizeOf(m, path)} : size.found /\ size.size = Len(bytes)
    /\ \E o \in {open(m, path, FALSE)} :
           /\ OK(o.w) /\ o.found
           /\ \E r \in {handleReadAll(o.w, o.handle)} : r.err = "" /\ r.data = bytes

FatCopiesEqual(dev) ==
    \A fat \in 1..(FatCount - 1) :
        readSectors(dev, ReservedSectors + fat * SectorsPerFat, SectorsPerFat)
            = readSectors(dev, ReservedSectors, SectorsPerFat)

-----------------------------------------------------------------------------
(* C3.  After a flush that completes, a remount of the device reads the    *)
(* FAT the memory holds and, for every cached directory, the entries the   *)
(* cache holds.  The statement as claimed, which the model refutes: FAT    *)
(* entries changed while the directory bodies are written stay in memory,  *)
(* and a directory that fills its chain is written without an end slot.    *)
C3_FlushDurable ==
    Succeeded("flush") => RemountAgrees(fs)

(* C4.  A file created, written with n >= 1 bytes and closed has, after a  *)
(* flush and a remount, size n and the written bytes.  The statement as    *)
(* claimed, which the model refutes: the FAT16 root the file fills is      *)
(* written without an end slot, and the remount does not read it.          *)
C4_RoundTrip ==
    Succeeded("flush") =>
        \A path \in Paths : expect[path] # <<>> =>
            \E m \in {Remounted(fs)} : ReadsBack(m, path, expect[path])

(* C5.  When a flush completes, every FAT copy on the device equals copy   *)
(* 0.  The statement as claimed, which the model refutes: cluster 0, once  *)
(* handed out, is written at sectors of the last FAT copy.                 *)
C5_FatCopiesEqualAfterFlush ==
    Succeeded("flush") => FatCopiesEqual(fs.dev)

FreeCount(w) == getStats(w).freeClusters

\* the file the last call named, in the state before the call
NamedBefore == traverse(last.pre, last.path)

ParentPath(path) ==
    LET index == LastIndexOf(path, SLASH, Len(path))
    IN  IF index <= 1 THEN <<SLASH>> ELSE SubSeq(path, 1, index - 1)

EndsInEndOfChain(w, cluster) ==
    \E c \in {getClusterChainFromFAT(w, cluster)} :
        c.err = "" /\ w.fat[c.links[Len(c.links)]] \in EndOfChainSet(w.fatType)

\* the entry objects no open handle refers to
Quiescent(id) == \A i \in 1..Len(handles) : handles[i].handle.underlying # id

ChainCoherent(w, e) ==
    \E c \in {OwnedChain(w, e)} :
        /\ c.err = ""
        /\ Len(c.links) * clusterSizeInBytes >= e.fileSize
        /\ Len(c.links) * clusterSizeInBytes < e.fileSize + clusterSizeInBytes

\* the chains of the tree: of every listed file and directory, and of the
\* FAT32 root
LiveChains(w) ==
    [id \in LiveFiles(w) \cup LiveDirEntries(w) \cup {0} |->
        IF id # 0 THEN OwnedChain(w, w.ents[id])
        ELSE IF w.fatType = "Fat32" THEN getClusterChainFromFAT(w, RootDirCluster)
        ELSE [err |-> "", links |-> <<>>]]

NoDuplicates(seq) == \A i, j \in 1..Len(seq) : seq[i] = seq[j] => i = j

MutatingCalls == {"create", "delete", "mkdir", "write", "flush", "open writable"}

-----------------------------------------------------------------------------
(* C6.  After delete of a file whose chain was c1..ck, every ci is free    *)
(* in the freemap and 0 in the FAT, the path no longer names an entry, and *)
(* the number of free clusters has grown by k (by 0 for a file that owned  *)
(* no cluster).  The statement as claimed, which the model refutes: for a  *)
(* file that owned no cluster the count grows by 1.                        *)
C6_DeleteFreesTheChain ==
    (Succeeded("delete") /\ NamedBefore.found /\ ~NamedBefore.entry.isDir) =>
        \E c \in {OwnedChain(NamedBefore.w, NamedBefore.w.ents[NamedBefore.entry.id])} :
            /\ \A i \in 1..Len(c.links) : fs.freemap[c.links[i]] /\ fs.fat[c.links[i]] = 0
            /\ \E l \in {listDir(fs, ParentPath(last.path))} :
                   l.found /\ ~Contains(l.names,
                                       name83toNormal(NamedBefore.w.ents[NamedBefore.entry.id].filenameStr))
            /\ FreeCount(fs) = FreeCount(last.pre) + Len(c.links)

(* C7.  Every file entry of the cache with a size above 0 has a nonzero    *)
(* first cluster whose FAT chain ends in an end-of-chain value, and a file *)
(* never written has first cluster 0 and size 0.  The statement as         *)
(* claimed, which the model refutes: a file that was handed cluster 0      *)
(* keeps first cluster 0 with its size above 0.                            *)
C7_SizedFilesHaveAChain ==
    /\ \A id \in LiveFiles(fs) : fs.ents[id].fileSize > 0 =>
           /\ FirstCluster(fs.ents[id]) # 0
           /\ EndsInEndOfChain(fs, FirstCluster(fs.ents[id]))
    /\ \A id \in LiveFiles(fs) \cap (files.made \ files.touched) :
           FirstCluster(fs.ents[id]) = 0 /\ fs.ents[id].fileSize = 0

(* C8.  For every file of the tree that no handle holds open, the chain    *)
(* of its first cluster is cycle-free and has k clusters with              *)
(* k * cluster size >= size and < size + cluster size.  The statement as   *)
(* claimed, which the model refutes: a write through a handle opened       *)
(* read-only grows the chain, and its close leaves the size as it was.     *)
C8_ChainCoherency ==
    \A id \in LiveFiles(fs) : Quiescent(id) => ChainCoherent(fs, fs.ents[id])

(* C9.  No cluster belongs to the FAT chains of two different live files   *)
(* or directories, and no chain visits a cluster twice.  An empty file    *)
(* with first cluster 0 has no chain.  The statement as claimed, which the *)
(* model refutes: cluster 0, freed by the delete of an empty file, is      *)
(* handed to two directories.                                              *)
C9_NoSharedCluster ==
    \E chains \in {LiveChains(fs)} :
        /\ \A id \in DOMAIN chains : chains[id].err = "" /\ NoDuplicates(chains[id].links)
        /\ \A a, b \in DOMAIN chains :
               a # b => SeqToSet(chains[a].links) \cap SeqToSet(chains[b].links) = {}

(* C10.  On a volume whose driver has no write function every mutating     *)
(* call fails with the read-only error.  The statement as claimed, which   *)
(* the model refutes: create adds the entry and returns a handle.          *)
C10_ReadOnlyRejectsMutation ==
    (~fs.isWritable /\ last.op \in MutatingCalls) => last.err = "FatError: read-only"

-----------------------------------------------------------------------------
\* the sectors of the FAT copies on the device
IsFatSector(s) == s >= ReservedSectors /\ s < dataSectorOffset

(* C11.  Within one flush, every device write to a sector of a FAT copy    *)
(* comes before the first device write to a directory body.  The statement *)
(* as claimed, which the model refutes: the body of a directory that was   *)
(* handed cluster 0 lies in the last FAT copy, and it is written in the    *)
(* directory phase, after the body of an earlier directory.                *)
C11_FatBeforeDirectories ==
    (last.op = "flush") =>
        \A i, j \in 1..Len(fs.writes) :
            (i < j /\ ~IsFatSector(fs.writes[i])) => ~IsFatSector(fs.writes[j])

-----------------------------------------------------------------------------
(* A flush cut off by a loss of power between its two phases: the FAT      *)
(* copies are on the device, no directory body is.  The process is gone    *)
(* afterwards, so no further call is made.                                 *)

\* flush up to the end of its FAT phase
flushFatPhase(w) ==
    IF ~w.isWritable THEN Throw(w, "FatError: read-only")
    ELSE IF w.fatAltered THEN flushFat(w, 0) ELSE w

FlushInterrupted ==
    /\ steps < MaxOps
    /\ \E w \in {flushFatPhase(Begin)} :
           /\ fs' = Settle(w)
           /\ last' = Call("flush interrupted", <<>>, w, OK(w), <<>>)
    /\ steps' = MaxOps
    /\ UNCHANGED <<handles, expect, files>>

NextCrash == Next \/ FlushInterrupted
SpecCrash == Init /\ [][NextCrash]_vars

\* the volume as the device holds it: the FAT of copy 0, and the directory
\* bodies read through it
OnDisk(w) ==
    [w EXCEPT !.fat = DecodeFat(w.fatType, readSectors(w.dev, ReservedSectors, SectorsPerFat))]

RECURSIVE ReadChain(_, _, _)
ReadChain(disk, links, i) ==
    IF i > Len(links) THEN <<>>
    ELSE readClusters(disk, links[i]).data \o ReadChain(disk, links, i + 1)

\* the entries of the directory body at a cluster, up to its 0x00 slot or
\* its end; cluster -1 is the fixed FAT16 root
DiskEntries(disk, cluster) ==
    consumeAllDirectoryEntries(
        IF cluster = -1
        THEN readSectors(disk.dev, dataSectorOffset,
                         (MaxRootDirEntries * DirEntrySize) \div BytesPerSector)
        ELSE ReadChain(disk, getClusterChainFromFAT(disk, cluster).links, 1),
        FALSE).entries

IsDotEntry(e) == e.filenameStr \in {PadTo(<<DOT>>, 11), PadTo(<<DOT, DOT>>, 11)}

\* every entry of the tree on the device, MaxDepth directories deep
MaxDepth == 3
RECURSIVE DiskTree(_, _, _)
DiskTree(disk, cluster, depth) ==
    LET entries == DiskEntries(disk, cluster)
        here == {entries[i] : i \in 1..Len(entries)}
    IN  here \cup
        (IF depth >= MaxDepth THEN {}
         ELSE UNION {DiskTree(disk, FirstCluster(e), depth + 1) :
                        e \in {x \in here : IsDirectoryAttr(x.attribs) /\ ~IsDotEntry(x)
                                             /\ InFat(disk, FirstCluster(x))
                                             /\ FirstCluster(x) >= 2}})

DiskRoot(disk) == IF disk.fatType = "Fat16" THEN -1 ELSE RootDirCluster

\* an entry whose chain holds a cluster the FAT on the device calls free
Dangling(disk, e) ==
    /\ FirstCluster(e) # 0
    /\ \/ ~InFat(disk, FirstCluster(e))
       \/ \E c \in {getClusterChainFromFAT(disk, FirstCluster(e))} :
              \E i \in 1..Len(c.links) : disk.fat[c.links[i]] = 0

(* C12.  When a flush is cut off after its FAT writes and before any       *)
(* directory write, every cluster of the chain of every entry on the       *)
(* device is in use in the FAT on the device.  The statement as claimed,   *)
(* which the model refutes: delete zeroes the chain in the FAT, the FAT    *)
(* reaches the device first, and the entry is still in the directory body. *)
C12_NoDanglingAfterCrash ==
    Succeeded("flush interrupted") =>
        \E disk \in {OnDisk(fs)} :
            \A e \in DiskTree(disk, DiskRoot(disk), 1) : ~Dangling(disk, e)

-----------------------------------------------------------------------------
(* Mounting images whose redundant FAT copy was altered in one byte.  The  *)
(* image is the legal one above; the byte at every position of every       *)
(* copy after the first is replaced in turn by each of two other values.   *)

DamagedCopies == 1..(FatCount - 1)
DamagedOffsets == 0..(SectorsPerFat * BytesPerSector - 1)
DamageDeltas == {1, 128}

\* the image with byte offset of FAT copy k raised by delta modulo 256
DamagedDev(ft, k, offset, delta) ==
    LET sector == ReservedSectors + k * SectorsPerFat + (offset \div BytesPerSector)
        at == offset % BytesPerSector
        dev == ImageDev(ft, FALSE)
    IN  [dev EXCEPT ![sector] = SetAt(@, <<(@[at + 1] + delta) % 256>>, at)]

\* the filesystem object before load has run
Unmounted(dev, ft) ==
    [fatType |-> ft, isWritable |-> TRUE, fat |-> <<>>,
     alteredFATSectors |-> <<>>, fatAltered |-> FALSE, freemap |-> <<>>, freelist |-> <<>>,
     dev |-> dev, writes |-> <<>>, err |-> "", ents |-> <<>>, altered |-> <<>>, dirs |-> <<>>]

InitImages ==
    /\ \E ft \in FatTypes :
          \/ fs = Unmounted(ImageDev(ft, FALSE), ft)
          \/ \E k \in DamagedCopies, offset \in DamagedOffsets, delta \in DamageDeltas :
                 fs = Unmounted(DamagedDev(ft, k, offset, delta), ft)
    /\ handles = <<>>
    /\ last = [op |-> "image", path |-> <<>>, err |-> "", ret |-> TRUE, data |-> <<>>,
               pre |-> <<>>, bypass |-> FALSE]
    /\ expect = [p \in Paths |-> <<>>]
    /\ files = [made |-> {}, touched |-> {}]
    /\ steps = 0

\* FatFilesystem.create(driver, bypassCoherencyCheck)
Mount(bypassCoherencyCheck) ==
    /\ last.op = "image"
    /\ \E m \in {load(fs.dev, fs.fatType, TRUE, bypassCoherencyCheck)} :
           /\ fs' = IF OK(m) THEN m ELSE fs
           /\ last' = [op |-> "mount", path |-> <<>>, err |-> m.err, ret |-> OK(m),
                       data |-> <<>>, pre |-> fs, bypass |-> bypassCoherencyCheck]
    /\ UNCHANGED <<handles, expect, files, steps>>

NextMount == \E bypassCoherencyCheck \in BOOLEAN : Mount(bypassCoherencyCheck)
SpecMount == InitImages /\ [][NextMount]_vars

(* C13.  The mount of an image in which a FAT copy after the first differs *)
(* from the first in a byte fails with the corrupt-filesystem error unless *)
(* the coherency check is bypassed; with the bypass it succeeds and the    *)
(* FAT in memory is the first copy.                                        *)
C13_CorruptBackupRefused ==
    (last.op = "mount" /\ ~FatCopiesEqual(last.pre.dev)) =>
        IF last.bypass
        THEN /\ last.err = ""
             /\ fs.fat = DecodeFat(fs.fatType, readSectors(fs.dev, ReservedSectors, SectorsPerFat))
        ELSE /\ last.err = "FatError: Fat backup invalid"
             /\ fs = last.pre

C13_Witness ==
    /\ last.op = "mount" /\ ~last.bypass
    /\ ~FatCopiesEqual(last.pre.dev)
    /\ last.err = "FatError: Fat backup invalid"

-----------------------------------------------------------------------------
(* The path-oriented calls on paths whose parent may be missing, that name *)
(* a directory with children, or that name an entry that exists already.   *)
(* The machine is the one above with these calls added; a run is           *)
(* MaxTreeOps calls long.                                                  *)

MaxTreeOps == 3
TreeCreatePaths == {PathDF, PathX, PathA}
TreeDeletePaths == {PathA}
RenamePairs == {<<PathX, PathG>>, <<PathAZ, PathAF>>, <<PathAZ, PathG>>, <<PathX, PathAF>>,
                <<PathX, PathY>>, <<PathF, PathDF>>}

InitTree ==
    /\ \E ft \in FatTypes : fs = Mounted(ft, TRUE, FALSE, FALSE)
    /\ handles = <<>>
    /\ last = NoCall
    /\ expect = [p \in Paths |-> <<>>]
    /\ files = [made |-> {}, touched |-> {}]
    /\ steps = MaxOps - MaxTreeOps

NextTree ==
    \/ Next
    \/ \E path \in TreeCreatePaths : Create(path)
    \/ \E path \in TreeDeletePaths : Delete(path)
    \/ \E pair \in RenamePairs : Rename(pair[1], pair[2])

SpecTree == InitTree /\ [][NextTree]_vars

\* nothing but the cache of directories read from the device differs
NothingChanged(pre, w) ==
    /\ w.fat = pre.fat /\ w.freemap = pre.freemap /\ w.freelist = pre.freelist
    /\ w.dev = pre.dev /\ w.writes = <<>>
    /\ w.altered = pre.altered
    /\ w.fatAltered = pre.fatAltered /\ w.alteredFATSectors = pre.alteredFATSectors
    /\ Len(w.ents) >= Len(pre.ents) /\ SubSeq(w.ents, 1, Len(pre.ents)) = pre.ents
    /\ Len(w.dirs) >= Len(pre.dirs)
    /\ \A d \in 1..Len(pre.dirs) :
           IF pre.dirs[d].loaded THEN w.dirs[d] = pre.dirs[d]
           ELSE /\ w.dirs[d].initialCluster = pre.dirs[d].initialCluster
                /\ w.dirs[d].underlying = pre.dirs[d].underlying

\* the directory a new entry of the path goes to, as the calls look it up
ParentOf(w, path) ==
    The({IF lastSlash = 0 THEN [w |-> w, found |-> TRUE, entry |-> RootRef]
         ELSE traverse(w, SubSeq(path, 1, lastSlash - 1))
         : lastSlash \in {LastIndexOf(path, SLASH, Len(path))}})

\* one plain entry was appended to directory d of before, d is altered, and
\* the rest of the filesystem is as in before
OneEntryAppended(before, w, d) ==
    /\ w.fat = before.fat /\ w.freemap = before.freemap /\ w.freelist = before.freelist
    /\ w.dev = before.dev /\ w.writes = <<>>
    /\ Contains(w.altered, d)
    /\ \A x \in 1..Len(w.dirs) : Contains(w.altered, x) => x = d \/ Contains(before.altered, x)
    /\ Len(w.ents) = Len(before.ents) + 1 /\ SubSeq(w.ents, 1, Len(before.ents)) = before.ents
    /\ Len(w.dirs) = Len(before.dirs)
    /\ \A x \in 1..Len(before.dirs) : x # d => w.dirs[x] = before.dirs[x]
    /\ w.dirs[d].children = Append(before.dirs[d].children, [isDir |-> FALSE, id |-> Len(w.ents)])

CreateOutcome(refused) ==
    IF refused
    THEN ~last.ret /\ NothingChanged(last.pre, fs)
    ELSE /\ last.ret
         /\ \E p \in {ParentOf(last.pre, last.path)} :
            \E before \in {getEntries(p.w, p.entry.id)} :
            LET h == handles[Len(handles)].handle
                e == fs.ents[Len(fs.ents)]
            IN  /\ OneEntryAppended(before, fs, p.entry.id)
                /\ FirstCluster(e) = 0 /\ e.fileSize = 0 /\ ~IsDirectoryAttr(e.attribs)
                /\ h.underlying = Len(fs.ents) /\ h.parent = p.entry.id
                /\ h.chain.links = <<>> /\ chainLength(h.chain) = 0

NamesNonEmptyDirectory(w, path) ==
    \E t \in {traverseEntries(w, path)} :
        /\ OK(t.w) /\ t.found /\ Len(t.roots) >= 2 /\ t.roots[Len(t.roots)].isDir
        /\ \E w1 \in {getEntries(t.w, t.roots[Len(t.roots)].id)} :
               /\ OK(w1)
               /\ \E i \in 1..Len(w1.dirs[t.roots[Len(t.roots)].id].children) :
                      ~IsDotEntry(w1.ents[RawEntryId(w1, w1.dirs[t.roots[Len(t.roots)].id].children[i])])

(* C15.  delete(path) on a directory that holds entries other than "." and *)
(* ".." fails with an error and changes nothing: the directory stays among *)
(* the children of its parent, its clusters stay allocated, and the FAT,   *)
(* the freemap, the freelist and the list of altered directories are as    *)
(* before.                                                                 *)
C15_NonEmptyDirectoryKept ==
    (last.op = "delete" /\ NamesNonEmptyDirectory(last.pre, last.path)) =>
        /\ last.err # ""
        /\ NothingChanged(last.pre, fs)
        /\ NamesNonEmptyDirectory(fs, last.path)

C15_Witness ==
    /\ last.op = "delete" /\ last.path = PathA
    /\ last.err = "FatError: Cannot delete a non-empty directory."
    /\ NamesNonEmptyDirectory(last.pre, last.path)
    /\ last.pre.altered # <<>>

\* the children of a directory without the entry and the long-name slots
\* that precede it
WithoutEntry(children, ref, lfns) ==
    LET at == IndexOf(children, ref, 1)
    IN  SubSeq(children, 1, at - 1 - lfns) \o SubSeq(children, at + 1, Len(children))

\* the effect of a rename on the world before, in which the directories on
\* both paths are read: entry ref leaves directory p, joins directory q
RenamedIn(before, w, p, q, ref, name83) ==
    LET rawId == RawEntryId(before, ref)
        removed == WithoutEntry(before.dirs[p].children, ref, before.ents[rawId].lfns)
    IN  /\ Len(w.dirs) = Len(before.dirs) /\ Len(w.ents) = Len(before.ents)
        /\ w.dirs[q].children = Append(IF p = q THEN removed ELSE before.dirs[q].children, ref)
        /\ p # q => w.dirs[p].children = removed
        /\ \A d \in 1..Len(before.dirs) : d \notin {p, q} => w.dirs[d] = before.dirs[d]
        /\ w.ents[rawId] = [before.ents[rawId] EXCEPT !.filenameStr = name83, !.lfns = 0]
        /\ \A e \in 1..Len(before.ents) : e # rawId => w.ents[e] = before.ents[e]
        /\ Contains(w.altered, p) /\ Contains(w.altered, q)
        /\ w.fat = before.fat /\ w.freemap = before.freemap /\ w.freelist = before.freelist
        /\ w.dev = before.dev

(* C16.  When rename(path, newPath) succeeds, for paths of any depth: the  *)
(* entry and its long-name slots are gone from the parent of the source,   *)
(* the entry is once in the parent of the destination under the 8.3 form   *)
(* of the new name with _lfns = 0, both parents are altered, and no other  *)
(* entry of any directory is added, removed or changed.  A rename whose    *)
(* destination exists fails and changes nothing.                           *)
C16_RenameMovesOneEntry ==
    (last.op = "rename") =>
        \E dest \in {traverseEntries(last.pre, last.data)} :
            IF dest.found
            THEN last.err # "" /\ NothingChanged(last.pre, fs)
            ELSE last.err = "" =>
                 \E src \in {traverse(dest.w, last.path)} :
                 \E p \in {ParentOf(src.w, last.path)}, q \in {ParentOf(src.w, last.data)} :
                     /\ src.found /\ p.found /\ q.found
                     /\ RenamedIn(src.w, fs, p.entry.id, q.entry.id, src.entry,
                                  nameNormalTo83(SubSeq(last.data,
                                                        LastIndexOf(last.data, SLASH, Len(last.data)) + 1,
                                                        Len(last.data))))

\* the new directory: its entry in the parent, its cluster and its children
MadeDirectory(before, w, par, ref) ==
    LET d == ref.id
        e == w.ents[w.dirs[d].underlying]
        c == FirstCluster(e)
        kids == w.dirs[d].children
        parentCluster == IF before.dirs[par].initialCluster = -1 THEN 0
                         ELSE before.dirs[par].initialCluster
    IN  /\ ref.isDir /\ IsDirectoryAttr(e.attribs)
        /\ InFat(before, c) /\ before.freemap[c] /\ before.fat[c] = 0
        /\ w.fat = [before.fat EXCEPT ![c] = EndOfChainMark(w.fatType)]
        /\ w.freemap = [before.freemap EXCEPT ![c] = FALSE]
        /\ readClusters(w, c).data = Zeros(clusterSizeInBytes)
        /\ w.writes = [i \in 1..SectorsPerCluster |-> clusterToSector(w.fatType, c) + i - 1]
        /\ \A sector \in 0..(NumSectors(w.fatType) - 1) :
               (sector < clusterToSector(w.fatType, c)
                \/ sector >= clusterToSector(w.fatType, c) + SectorsPerCluster)
                   => readSector(w.dev, sector) = readSector(before.dev, sector)
        /\ w.dirs[d].initialCluster = c
        /\ w.dirs[d].loaded /\ Len(kids) = 2
        /\ kids[1].isDir /\ kids[2].isDir
        /\ w.ents[RawEntryId(w, kids[1])].filenameStr = PadTo(<<DOT>>, 11)
        /\ FirstCluster(w.ents[RawEntryId(w, kids[1])]) = c
        /\ w.ents[RawEntryId(w, kids[2])].filenameStr = PadTo(<<DOT, DOT>>, 11)
        /\ FirstCluster(w.ents[RawEntryId(w, kids[2])]) = parentCluster
        /\ Contains(w.altered, par) /\ Contains(w.altered, d)

(* C17.  mkdir of a path that names nothing yet allocates one free         *)
(* cluster, fills that cluster with zeros, and appends one directory entry *)
(* to the parent whose first cluster is the allocated one and whose        *)
(* children are "." with that cluster and ".." with the first cluster of   *)
(* the parent, 0 under the fixed root; the parent and the new directory    *)
(* are both altered.                                                       *)
C17_MkdirMakesOneDirectory ==
    (Succeeded("mkdir") /\ ~traverse(last.pre, last.path).found) =>
        \E p \in {ParentOf(last.pre, last.path)} :
        \E before \in {getEntries(p.w, p.entry.id)} :
            LET kids == fs.dirs[p.entry.id].children
            IN  /\ kids # <<>>
                /\ SubSeq(kids, 1, Len(kids) - 1) = before.dirs[p.entry.id].children
                /\ MadeDirectory(before, fs, p.entry.id, kids[Len(kids)])

C17_Witness ==
    /\ Succeeded("mkdir") /\ last.path = PathAD
    /\ ~traverse(last.pre, last.path).found
    /\ traverse(fs, last.path).found

-----------------------------------------------------------------------------
(* Seeking and reading on the chain of an open handle.  Seek is Chain.seek *)
(* run to its end, Read and ReadAll are Chain.read and Chain.readAll; the  *)
(* call record keeps the chain as it was before the call.                  *)

SeekTargets == {0, 2, 5, 200}
ReadCounts == {0, 2, 200}

ChainCall(op, i, err, data, count) ==
    [op |-> op, path |-> handles[i].path, err |-> err, ret |-> err = "", data |-> data,
     pre |-> fs, chain |-> handles[i].handle.chain, count |-> count]

Seek(i, to) ==
    /\ steps < MaxOps
    /\ i \in 1..Len(handles)
    /\ \E r \in {chainSeek(Begin, handles[i].handle.chain, to)} :
           /\ fs' = Settle(r.w)
           /\ handles' = [handles EXCEPT ![i].handle.chain = r.ch]
           /\ last' = ChainCall("seek", i, r.w.err, <<>>, to)
    /\ steps' = steps + 1
    /\ UNCHANGED <<expect, files>>

Read(i, count) ==
    /\ steps < MaxOps
    /\ i \in 1..Len(handles)
    /\ \E r \in {handleRead(Begin, handles[i].handle, count)} :
           /\ fs' = Begin
           /\ handles' = [handles EXCEPT ![i].handle = r.handle]
           /\ last' = ChainCall("read", i, r.err, r.data, count)
    /\ steps' = steps + 1
    /\ UNCHANGED <<expect, files>>

ReadAll(i) ==
    /\ steps < MaxOps
    /\ i \in 1..Len(handles)
    /\ \E r \in {chainReadAll(Begin, handles[i].handle.chain)} :
           /\ fs' = Begin
           /\ handles' = [handles EXCEPT ![i].handle.chain = r.ch]
           /\ last' = ChainCall("readAll", i, r.err, r.data, -1)
    /\ steps' = steps + 1
    /\ UNCHANGED <<expect, files>>

NextFile ==
    \/ Next
    \/ \E i \in 1..MaxHandles, to \in SeekTargets : Seek(i, to)
    \/ \E i \in 1..MaxHandles, count \in ReadCounts : Read(i, count)
    \/ \E i \in 1..MaxHandles : ReadAll(i)

SpecFile == InitTree /\ [][NextFile]_vars

\* the bytes the links of the chain hold on the device, in link order
RECURSIVE ChainBytes(_, _, _)
ChainBytes(w, links, i) ==
    IF i > Len(links) THEN <<>>
    ELSE linkRead(w, links[i]).data \o ChainBytes(w, links, i + 1)

\* min(n, max(0, total_length - c))
ReadSize(ch, n) == Min(n, Max(0, ch.totalLength - ch.cursor))

(* C18.  Chain.read(n) at cursor c returns min(n, max(0, total_length - c)) *)
(* bytes, the bytes of the chain from c onward in link order, and moves    *)
(* the cursor on by that count; a read that starts at or beyond            *)
(* total_length returns an empty result and does not fail.  readAll        *)
(* returns no byte beyond total_length.                                    *)
C18_ReadIsBoundedByTotalLength ==
    /\ (last.op = "read") =>
           \E i \in 1..Len(handles) :
               /\ handles[i].path = last.path
               /\ last.err = ""
               /\ Len(last.data) = ReadSize(last.chain, last.count)
               /\ last.data = Slice(ChainBytes(fs, last.chain.links, 1), last.chain.cursor,
                                    last.chain.cursor + ReadSize(last.chain, last.count))
               /\ handles[i].handle.chain.cursor = last.chain.cursor + ReadSize(last.chain, last.count)
    /\ (last.op = "readAll" /\ last.err = "") =>
           Len(last.data) <= Max(0, last.chain.totalLength - last.chain.cursor)

-----------------------------------------------------------------------------
(* Chain.write as a function of the chain and the volume it is called on.  *)
(* The chains are the ones the program builds (the fixed root region of    *)
(* flush, a chain without allocator as the directory reader makes it, the  *)
(* chains of open and create, a chain of two clusters) and the chains of   *)
(* open and create over an allocator that returns no link.  expect holds,  *)
(* for the path of the chain, the bytes the links held at first with every *)
(* write since laid over them.  The volume is the image above with its free clusters  *)
(* cut down to the clusters of one of VolumeFree.                          *)

VolumeFree == {FreeClusters, {3}, {}}

VolumeFat(ft, free) ==
    [c \in 0..(FatEntries(ft) - 1) |->
        IF ImageFat(ft)[c] = 0 /\ c \notin free THEN BadCluster(ft) ELSE ImageFat(ft)[c]]

VolumeDev(ft, free) ==
    [sector \in DOMAIN ImageDev(ft, FALSE) |->
        IF IsFatSector(sector)
        THEN fatSectorSlice(ft, VolumeFat(ft, free), (sector - ReservedSectors) % SectorsPerFat)
        ELSE ImageDev(ft, FALSE)[sector]]

ChainsOn(w) ==
    {newChain(<<RootRegionLink>>, FALSE, -1),
     constructClusterChain(w, FileXCluster, FALSE, -1).ch,
     constructClusterChain(w, FileXCluster, TRUE, Len(FileXBytes)).ch,
     constructClusterChain(w, 0, TRUE, -1).ch,
     constructClusterChain(w, DirAFirst, TRUE, -1).ch,
     [constructClusterChain(w, FileXCluster, TRUE, Len(FileXBytes)).ch EXCEPT !.allocatesNothing = TRUE],
     [constructClusterChain(w, 0, TRUE, -1).ch EXCEPT !.allocatesNothing = TRUE]}

NoSpaceErrors == {"ChainError: No space!", "ChainError: Allocator can't allocate more links!"}

\* what the links from place i on return when read, in link order
RECURSIVE LinkBytes(_, _, _)
LinkBytes(w, links, i) ==
    IF i > Len(links) THEN <<>>
    ELSE linkRead(w, links[i]).data \o LinkBytes(w, links, i + 1)

\* the content of a chain after a write that failed half way is not known
Unknown == <<-1>>

InitChain ==
    /\ \E ft \in FatTypes, free \in VolumeFree :
          /\ fs = load(VolumeDev(ft, free), ft, TRUE, FALSE)
          /\ \E ch \in ChainsOn(fs) :
                 /\ handles = <<[handle |-> [NoHandle EXCEPT !.chain = ch], path |-> PathX,
                                 fresh |-> FALSE, written |-> <<>>]>>
                 /\ expect = [p \in Paths |-> IF p = PathX THEN LinkBytes(fs, ch.links, 1) ELSE <<>>]
    /\ last = NoCall
    /\ files = [made |-> {}, touched |-> {}]
    /\ steps = MaxOps - MaxTreeOps

ChainWrite(i, data) ==
    /\ steps < MaxOps
    /\ i \in 1..Len(handles)
    /\ \E r \in {chainWrite(Begin, handles[i].handle.chain, data)} :
           /\ fs' = Settle(r.w)
           /\ handles' = [handles EXCEPT ![i].handle.chain = r.ch]
           /\ last' = ChainCall("chain write", i, r.w.err, data, Len(data))
           /\ expect' = [expect EXCEPT ![handles[i].path] =
                             IF ~OK(r.w) THEN (IF r.w.err \in NoSpaceErrors THEN @ ELSE Unknown)
                             ELSE IF @ = Unknown THEN Unknown
                             ELSE SetAt(@ \o LinkBytes(fs, r.ch.links, Len(handles[i].handle.chain.links) + 1),
                                        data, handles[i].handle.chain.cursor)]
    /\ steps' = steps + 1
    /\ UNCHANGED files

ChainSeek(i, to) ==
    /\ steps < MaxOps
    /\ i \in 1..Len(handles)
    /\ \E r \in {chainSeek(Begin, handles[i].handle.chain, to)} :
           /\ fs' = Settle(r.w)
           /\ handles' = [handles EXCEPT ![i].handle.chain = r.ch]
           /\ last' = ChainCall("chain seek", i, r.w.err, <<>>, to)
    /\ steps' = steps + 1
    /\ UNCHANGED <<expect, files>>

ChainFlushChanges(i) ==
    /\ steps < MaxOps
    /\ i \in 1..Len(handles)
    /\ \E r \in {flushWritingBuffer(Begin, handles[i].handle.chain)} :
           /\ fs' = Settle(r.w)
           /\ handles' = [handles EXCEPT ![i].handle.chain = r.ch]
           /\ last' = ChainCall("chain flush", i, r.w.err, <<>>, 0)
    /\ steps' = steps + 1
    /\ UNCHANGED <<expect, files>>

ChainRead(i, count) ==
    /\ steps < MaxOps
    /\ i \in 1..Len(handles)
    /\ \E r \in {chainRead(Begin, handles[i].handle.chain, count)} :
           /\ fs' = Begin
           /\ handles' = [handles EXCEPT ![i].handle.chain = r.ch]
           /\ last' = ChainCall("chain read", i, r.err, r.data, count)
    /\ steps' = steps + 1
    /\ UNCHANGED <<expect, files>>

NextChain ==
    \/ \E i \in 1..MaxHandles, data \in WriteData : ChainWrite(i, data)
    \/ \E i \in 1..MaxHandles, to \in SeekTargets : ChainSeek(i, to)
    \/ \E i \in 1..MaxHandles : ChainFlushChanges(i)
    \/ \E i \in 1..MaxHandles, count \in ReadCounts : ChainRead(i, count)

SpecChain == InitChain /\ [][NextChain]_vars

\* the write would end beyond length()
EndsBeyondLength(ch, data) == ch.cursor + Len(data) > chainLength(ch)

(* C19.  A Chain.write that would end beyond length() on a chain without   *)
(* allocator, or with an allocator that returns no link, fails with a      *)
(* no-space ChainError, and no byte of the data has reached a link or the  *)
(* pending buffer: the device and the chain are as before the call.        *)
C19_NoSpaceBeforeAnyByte ==
    (/\ last.op = "chain write"
     /\ EndsBeyondLength(last.chain, last.data)
     /\ ~last.chain.hasAllocator \/ last.chain.allocatesNothing) =>
        /\ last.err \in NoSpaceErrors
        /\ fs.writes = <<>> /\ fs.dev = last.pre.dev
        /\ handles[1].handle.chain = last.chain

C19_Witness ==
    /\ last.op = "chain write"
    /\ EndsBeyondLength(last.chain, last.data)
    /\ ~last.chain.hasAllocator
    /\ last.chain.writingBuffer # <<>>
    /\ last.err = "ChainError: No space!"

(* C20.  When the volume has no free cluster left, a write that has to     *)
(* grow the file fails with a no-space error and the FAT, the freemap and  *)
(* the freelist are as before the write.                                   *)
C20_NoSpaceLeavesAllocatorUntouched ==
    (/\ last.op = "chain write"
     /\ EndsBeyondLength(last.chain, last.data)
     /\ last.chain.hasAllocator /\ ~last.chain.allocatesNothing
     /\ \A c \in DOMAIN last.pre.freemap : ~last.pre.freemap[c]) =>
        /\ last.err \in NoSpaceErrors
        /\ fs.fat = last.pre.fat /\ fs.freemap = last.pre.freemap /\ fs.freelist = last.pre.freelist

\* the bytes the links hold on the device, in link order
RECURSIVE DeviceBytes(_, _, _)
DeviceBytes(w, links, i) ==
    IF i > Len(links) THEN <<>>
    ELSE (IF links[i].kind = "root"
          THEN SubSeq(readSectors(w.dev, dataSectorOffset,
                                  CeilDiv(links[i].length, BytesPerSector)), 1, links[i].length)
          ELSE readClusters(w, links[i].index).data)
         \o DeviceBytes(w, links, i + 1)

\* every link before the one the cursor is in holds what was written
WrittenUpTo(w, ch, bytes) ==
    \E n \in {IF ch.currentLink = NoLink THEN Len(ch.links) ELSE ch.linkIndex} :
        DeviceBytes(w, SubSeq(ch.links, 1, n), 1) = SubSeq(bytes, 1, SumLengths(SubSeq(ch.links, 1, n)))

(* C21.  A chain holds at most one pending buffer, of the size of one      *)
(* link.  After a write that crossed a link boundary the links before the  *)
(* cursor hold the written bytes, and after every seek and flush no buffer *)
(* is pending and every link holds the newly written bytes at the written  *)
(* offsets and what it held before at every other offset (what the link   *)
(* returns when read: the root region reads as zeros).                     *)
C21_PendingBufferWrittenOut ==
    \A i \in 1..Len(handles) :
        \E ch \in {handles[i].handle.chain} :
            /\ ch.writingBuffer # <<>> =>
                   \E k \in 1..Len(ch.links) : Len(ch.writingBuffer) = ch.links[k].length
            /\ (last.op = "chain write" /\ last.err = "" /\ expect[handles[i].path] # Unknown) =>
                   WrittenUpTo(fs, ch, expect[handles[i].path])
            /\ last.op \in {"chain seek", "chain flush"} => ch.writingBuffer = <<>>
            /\ (/\ last.op \in {"chain seek", "chain flush"}
                /\ last.chain.writingBuffer # <<>>
                /\ expect[handles[i].path] # Unknown) =>
                   /\ last.err = ""
                   /\ DeviceBytes(fs, ch.links, 1) = expect[handles[i].path]

(***************************************************************************)
(* FAT12.  The in-memory FAT as the bytes of the DataView; an entry is     *)
(* twelve bits of the three-byte group of its pair.                        *)
(***************************************************************************)
RECURSIVE BitAnd(_, _)
BitAnd(a, b) ==
    IF a = 0 \/ b = 0 THEN 0
    ELSE (a % 2) * (b % 2) + 2 * BitAnd(a \div 2, b \div 2)

RECURSIVE BitOr(_, _)
BitOr(a, b) ==
    IF a = 0 THEN b
    ELSE IF b = 0 THEN a
    ELSE Max(a % 2, b % 2) + 2 * BitOr(a \div 2, b \div 2)

\* getUint16(base, true) | (getUint8(base + 2) << 16)
baseContentsOf(fatContents, base) ==
    BitOr(fatContents[base + 1] + 256 * fatContents[base + 2], fatContents[base + 3] * 65536)

groupBase(number) == (number \div 2) * 3

readFATClusterEntry12(f, number) ==
    IF number % 2 = 1
    THEN BitAnd(baseContentsOf(f.fatContents, groupBase(number)), 16773120) \div 4096
    ELSE BitAnd(baseContentsOf(f.fatContents, groupBase(number)), 4095)

addSector(altered, sector) == IF Contains(altered, sector) THEN altered ELSE Append(altered, sector)

\* baseContents with the twelve bits of the entry replaced; next << 12 stays
\* below 2^24 for the values next < 0x1000 that are written
newBaseContents(f, number, next) ==
    IF number % 2 = 1
    THEN BitOr(BitAnd(baseContentsOf(f.fatContents, groupBase(number)), 4095), next * 4096)
    ELSE BitOr(BitAnd(baseContentsOf(f.fatContents, groupBase(number)), 16773120), next)

\* the group is written back whole, the sector of its last byte is not recorded
writeFATClusterEntry12OneSector(f, number, next) ==
    The({[f EXCEPT !.fatContents = SetAt(@, <<bc % 256, (bc \div 256) % 256, (bc \div 65536) % 256>>,
                                         groupBase(number)),
                   !.alteredFATSectors = addSector(@, groupBase(number) \div BytesPerSector),
                   !.fatAltered = TRUE]
         : bc \in {newBaseContents(f, number, next)}})

writeFATClusterEntry12(f, number, next) ==
    The({[f EXCEPT !.fatContents = SetAt(@, <<bc % 256, (bc \div 256) % 256, (bc \div 65536) % 256>>,
                                         groupBase(number)),
                   !.alteredFATSectors = addSector(addSector(@, groupBase(number) \div BytesPerSector),
                                                   (groupBase(number) + 2) \div BytesPerSector),
                   !.fatAltered = TRUE]
         : bc \in {newBaseContents(f, number, next)}})

MaxFatWrites == 2

\* groups at the start of the FAT, across the sector boundary, at its end
Fat12Groups == {0, 42, 84}

Fat12Values == {0, 1365, 2748, 4095}

Fat12Buffers ==
    {[i \in 1..(SectorsPerFat * BytesPerSector) |-> 0],
     [i \in 1..(SectorsPerFat * BytesPerSector) |-> 255],
     [i \in 1..(SectorsPerFat * BytesPerSector) |-> (i * 7) % 256]}

InitFat12 ==
    /\ \E buf \in Fat12Buffers :
           fs = [fatType |-> "Fat12", fatContents |-> buf, alteredFATSectors |-> <<>>, fatAltered |-> FALSE]
    /\ handles = <<>>
    /\ last = [op |-> "mount", number |-> -1, next |-> 0, pre |-> <<>>, before |-> -1, beforeNext |-> 0]
    /\ expect = [p \in Paths |-> <<>>]
    /\ files = [made |-> {}, touched |-> {}]
    /\ steps = MaxOps - MaxFatWrites

WriteFat12(number, next) ==
    /\ steps < MaxOps
    /\ fs' = writeFATClusterEntry12(fs, number, next)
    /\ last' = [op |-> "fat12 write", number |-> number, next |-> next, pre |-> fs,
                before |-> last.number, beforeNext |-> last.next]
    /\ steps' = steps + 1
    /\ UNCHANGED <<handles, expect, files>>

NextFat12 ==
    \E g \in Fat12Groups, odd \in {0, 1}, next \in Fat12Values : WriteFat12(2 * g + odd, next)

SpecFat12 == InitFat12 /\ [][NextFat12]_vars

\* the three bytes of the pair of entry number
GroupBytes(number) == {(number \div 2) * 3 + k : k \in 1..3}

GroupSectors(number) == {(b - 1) \div BytesPerSector : b \in GroupBytes(number)}

(* C22.  On FAT12, writing v to entry 2n and w to entry 2n+1 in either     *)
(* order and reading both back yields (v, w) for every buffer content; a   *)
(* write to one entry leaves the other entry of the pair and every byte    *)
(* outside the three-byte group as they were, and the sectors the group    *)
(* spans are in the altered-sector set.                                    *)
C22_Fat12PairRoundTrip ==
    /\ (last.op = "fat12 write" /\ last.before \div 2 = last.number \div 2 /\ last.before # last.number) =>
           /\ readFATClusterEntry12(fs, last.number) = last.next
           /\ readFATClusterEntry12(fs, last.before) = last.beforeNext
    /\ last.op = "fat12 write" =>
           /\ readFATClusterEntry12(fs, last.number) = last.next
           /\ \E other \in {IF last.number % 2 = 1 THEN last.number - 1 ELSE last.number + 1} :
                  readFATClusterEntry12(fs, other) = readFATClusterEntry12(last.pre, other)
           /\ \A i \in 1..Len(fs.fatContents) :
                  i \notin GroupBytes(last.number) => fs.fatContents[i] = last.pre.fatContents[i]
           /\ \A sector \in GroupSectors(last.number) : Contains(fs.alteredFATSectors, sector)
           /\ fs.fatAltered

\* an odd entry of the group across the sector boundary was written over a non-zero pair
C22_Witness ==
    /\ last.op = "fat12 write"
    /\ last.number = 85
    /\ last.next = 2748
    /\ last.before = 84
    /\ last.beforeNext = 4095
    /\ Cardinality(GroupSectors(last.number)) = 2

(***************************************************************************)
(* The codec of directory records.  A 32-byte record is drawn, then        *)
(* unpacked, serialized again, or one integer field of it is decoded.      *)
(***************************************************************************)
NameBase == <<65, 66, 67, 68, 69, 70, 71, 72, 73, 74, 75>>

\* ASCII, a lone continuation byte, the deleted marker, a byte no UTF-8 text holds
NameBytes == {65, 128, FAT_MARKER_DELETED, 255}

NamePlaces == {1, 6, 11}

AttribBytes == {0, 16, 128, 255}

LowWords == {5, 32767, 32768, 65535}

HighWords == {0, 1}

FileSizes == {3, 2147483647}

Record(place, byte, attribs, high, low, size) ==
    [NameBase EXCEPT ![place] = byte] \o <<attribs, 0>> \o <<1, 2, 3, 4, 5>> \o <<6, 7>>
        \o U16LE(high) \o <<8, 9, 10, 11>> \o U16LE(low) \o U32LE(size)

Records ==
    {Record(place, byte, attribs, high, low, size) :
        place \in NamePlaces, byte \in NameBytes, attribs \in AttribBytes,
        high \in HighWords, low \in LowWords, size \in FileSizes}

NoCodecCall == [op |-> "record", entry |-> <<>>, data |-> <<>>, err |-> "", width |-> 0, upper |-> FALSE, value |-> 0]

InitCodec ==
    /\ fs \in Records
    /\ handles = <<>>
    /\ last = NoCodecCall
    /\ expect = [p \in Paths |-> <<>>]
    /\ files = [made |-> {}, touched |-> {}]
    /\ steps = 0

CreateEntry ==
    /\ last.op = "record"
    /\ last' = [NoCodecCall EXCEPT !.op = "create", !.entry = createFatFSDirectoryEntry(fs, 0)]
    /\ steps' = steps + 1
    /\ UNCHANGED <<fs, handles, expect, files>>

SerializeEntry ==
    /\ last.op = "create"
    /\ last' = [last EXCEPT !.op = "serialize",
                            !.err = IF serializeThrows(last.entry) THEN "RangeError" ELSE "",
                            !.data = IF serializeThrows(last.entry) THEN <<>>
                                     ELSE serializeFatFSDirectoryEntry(last.entry)]
    /\ steps' = steps + 1
    /\ UNCHANGED <<fs, handles, expect, files>>

\* the field of the record that has the width of the code
FieldBytes(record, width) ==
    IF width = 1 THEN Slice(record, 11, 12)
    ELSE IF width = 2 THEN Slice(record, 26, 28)
    ELSE Slice(record, 28, 32)

UnpackInt(width, upper) ==
    /\ last.op = "record"
    /\ last' = [NoCodecCall EXCEPT !.op = "unpack", !.width = width, !.upper = upper,
                                   !.value = structUnpackInt(FieldBytes(fs, width), width, upper)]
    /\ steps' = steps + 1
    /\ UNCHANGED <<fs, handles, expect, files>>

NextCodec ==
    \/ CreateEntry
    \/ SerializeEntry
    \/ \E width \in {1, 2, 4}, upper \in BOOLEAN : UnpackInt(width, upper)

SpecCodec == InitCodec /\ [][NextCodec]_vars

(* C23.  For every 32-byte directory record, whatever the bytes of its     *)
(* name, serializing the entry unpacked from it gives the record again.    *)
C23_RecordRoundTrip ==
    last.op = "serialize" => (last.err = "" /\ last.data = fs)

\* the value of w little-endian bytes read as an unsigned integer
UnsignedValue(bytes, w) == LEFrom(bytes, 1, w)

\* the same bytes read as a two's-complement integer (the four-byte fields
\* drawn here have the top bit clear)
SignedValue(bytes, w) ==
    IF w < 4 /\ UnsignedValue(bytes, w) >= 2 ^ (8 * w - 1)
    THEN UnsignedValue(bytes, w) - 2 ^ (8 * w)
    ELSE UnsignedValue(bytes, w)

(* C24.  With the little-endian format every upper-case integer code (B,   *)
(* H, I) decodes to the unsigned value of its bytes and every lower-case   *)
(* code to the two's-complement value; so the first cluster of an unpacked *)
(* entry is low + 65536 * high for every 16-bit low word.                  *)
C24_IntegerCodes ==
    /\ last.op = "unpack" =>
           last.value = IF last.upper THEN UnsignedValue(FieldBytes(fs, last.width), last.width)
                        ELSE SignedValue(FieldBytes(fs, last.width), last.width)
    /\ last.op = "create" =>
           FirstCluster(last.entry) = UnsignedValue(Slice(fs, 26, 28), 2)
                                          + 65536 * UnsignedValue(Slice(fs, 20, 22), 2)

(***************************************************************************)
(* The allocator on its own.  The volume is the image with any subset of   *)
(* its free clusters left free; allocate is called with no last link or    *)
(* with the last cluster of X or of A, and the chain of X or of A is       *)
(* released as delete releases it.                                         *)
(***************************************************************************)
MaxAllocOps == 2

AllocLastLinks == {-1, FileXCluster, DirASecond}

AllocSizes == {1, clusterSizeInBytes, clusterSizeInBytes + 1, 2 * clusterSizeInBytes + 1}

NoAllocCall == [op |-> "mount", lastLink |-> -1, size |-> 0, links |-> <<>>, err |-> "", pre |-> <<>>,
                freed |-> <<>>]

InitAlloc ==
    /\ \E ft \in FatTypes, free \in SUBSET FreeClusters :
           fs = load(VolumeDev(ft, free), ft, TRUE, FALSE)
    /\ handles = <<>>
    /\ last = NoAllocCall
    /\ expect = [p \in Paths |-> <<>>]
    /\ files = [made |-> {}, touched |-> {}]
    /\ steps = MaxOps - MaxAllocOps

Allocate(lastLink, size) ==
    /\ steps < MaxOps
    /\ \E r \in {allocate(Begin, lastLink, size)} :
           /\ fs' = Settle(r.w)
           /\ last' = [op |-> "allocate", lastLink |-> lastLink, size |-> size, links |-> r.links,
                       err |-> r.w.err, pre |-> fs,
                       freed |-> IF last.op = "release" THEN last.links ELSE <<>>]
    /\ steps' = steps + 1
    /\ UNCHANGED <<handles, expect, files>>

\* what delete does with the chain of the entry it removes
Release(cluster) ==
    /\ steps < MaxOps
    /\ fs.fat[cluster] # 0
    /\ \E chain \in {getClusterChainFromFAT(fs, cluster)} :
           /\ chain.err = ""
           /\ fs' = Settle(ZeroFat(addClusterListToFreelist(Begin, chain.links), chain.links, 1))
           /\ last' = [NoAllocCall EXCEPT !.op = "release", !.links = chain.links, !.pre = fs]
    /\ steps' = steps + 1
    /\ UNCHANGED <<handles, expect, files>>

NextAlloc ==
    \/ \E lastLink \in AllocLastLinks, size \in AllocSizes : Allocate(lastLink, size)
    \/ \E cluster \in {FileXCluster, DirAFirst} : Release(cluster)

SpecAlloc == InitAlloc /\ [][NextAlloc]_vars

RunsNeeded(size) == CeilDiv(size, clusterSizeInBytes)

FittingRuns(w, size) == SelectSeq(w.freelist, LAMBDA e : e.length >= RunsNeeded(size))

\* the runs the statement lets allocate take: the first of list when there is
\* no last link, else one whose start is nearest to it
NearestRuns(list, lastLink) ==
    {list[k] : k \in {j \in 1..Len(list) :
        IF lastLink = -1 THEN j = 1
        ELSE \A i \in 1..Len(list) :
                 Abs(list[j].startCluster - lastLink) <= Abs(list[i].startCluster - lastLink)}}

\* the freelist with n clusters taken from the front of run
ShortenedBy(list, run, n) ==
    IF run.length = n THEN SelectSeq(list, LAMBDA e : e # run)
    ELSE [i \in 1..Len(list) |->
             IF list[i] = run THEN [startCluster |-> run.startCluster + n, length |-> run.length - n]
             ELSE list[i]]

(* C25.  When some free run holds the clusters a request needs, allocate   *)
(* returns exactly that many links, consecutive from the front of the      *)
(* fitting run nearest to the last link (the first fitting run when there  *)
(* is none), marks exactly those clusters taken and shortens that run or   *)
(* removes it; a cluster released by delete is handed out by the next      *)
(* request it is the first fit of.                                         *)
C25_AllocateFromFittingRun ==
    (last.op = "allocate" /\ FittingRuns(last.pre, last.size) # <<>>) =>
        /\ last.err = ""
        /\ Len(last.links) = RunsNeeded(last.size)
        /\ \E run \in NearestRuns(FittingRuns(last.pre, last.size), last.lastLink) :
               /\ \A i \in 1..Len(last.links) : last.links[i] = run.startCluster + i - 1
               /\ fs.freelist = ShortenedBy(last.pre.freelist, run, RunsNeeded(last.size))
               /\ (last.freed # <<>> /\ last.lastLink = -1 /\ run.startCluster = last.freed[1]) =>
                      last.links[1] = last.freed[1]
        /\ \A c \in DOMAIN fs.freemap :
               fs.freemap[c] = (last.pre.freemap[c] /\ ~Contains(last.links, c))

\* two clusters after cluster 9 come from the run at 6, not from the first run
\* at 3, and the run at 6 is gone
C25_Witness ==
    /\ last.op = "allocate"
    /\ last.lastLink = DirASecond
    /\ last.links = <<6, 7>>
    /\ Len(FittingRuns(last.pre, last.size)) = 2
    /\ Len(fs.freelist) = 1

(* C26.  When no free run holds the clusters a request needs but some run  *)
(* is free, allocate takes the run nearest to the last link whatever its   *)
(* length and returns the links cut from it, maybe fewer than needed, all  *)
(* of them clusters that were free before the call.                        *)
C26_AllocateFromAnyRun ==
    (last.op = "allocate" /\ FittingRuns(last.pre, last.size) = <<>> /\ last.pre.freelist # <<>>) =>
        /\ last.err = ""
        /\ last.links # <<>>
        /\ Len(last.links) <= RunsNeeded(last.size)
        /\ \A i \in 1..Len(last.links) : last.pre.freemap[last.links[i]]
        /\ \E run \in NearestRuns(last.pre.freelist, last.lastLink) :
               \A i \in 1..Len(last.links) : last.links[i] = run.startCluster + i - 1

WalkClusters == {2, 3, 4}

\* free, the first and the last end-of-chain mark, each drawn cluster, the
\* bad-cluster mark
WalkValues(ft) == {0, endOfChain(ft)[1], EndOfChainMark(ft), BadCluster(ft)} \cup WalkClusters

InitWalk ==
    /\ \E ft \in FatTypes :
       \E drawn \in [WalkClusters -> WalkValues(ft)] :
           fs = [fatType |-> ft,
                 fat |-> [c \in 0..(FatEntries(ft) - 1) |->
                             IF c \in WalkClusters THEN drawn[c] ELSE EndOfChainMark(ft)]]
    /\ handles = <<>>
    /\ last = [op |-> "mount", cluster |-> 0, err |-> "", links |-> <<>>]
    /\ expect = [p \in Paths |-> <<>>]
    /\ files = [made |-> {}, touched |-> {}]
    /\ steps = 0

Walk(initialCluster) ==
    /\ last.op = "mount"
    /\ \E r \in {getClusterChainFromFAT(fs, initialCluster)} :
           last' = [op |-> "walk", cluster |-> initialCluster, err |-> r.err, links |-> r.links]
    /\ steps' = steps + 1
    /\ UNCHANGED <<fs, handles, expect, files>>

NextWalk == \E initialCluster \in WalkClusters \cup {0} : Walk(initialCluster)

SpecWalk == InitWalk /\ [][NextWalk]_vars

EndsChain(ft, value) == value = 0 \/ value \in EndOfChainSet(ft)

\* links is the way from cluster through the FAT, no cluster twice
IsWalk(w, cluster, links) ==
    /\ links # <<>>
    /\ links[1] = cluster
    /\ \A i \in 1..(Len(links) - 1) : links[i + 1] = w.fat[links[i]] /\ ~EndsChain(w.fatType, links[i + 1])
    /\ \A i, j \in 1..Len(links) : links[i] = links[j] => i = j

(* C28.  getClusterChainFromFAT ends for every FAT content: it returns the *)
(* clusters visited in order up to the one whose FAT value is 0 or an      *)
(* end-of-chain mark, no cluster twice, or, when the next value is a       *)
(* cluster already visited, it stops with the corruption error.            *)
C28_ChainWalkEnds ==
    last.op = "walk" =>
        \/ /\ last.err = ""
           /\ IsWalk(fs, last.cluster, last.links)
           /\ EndsChain(fs.fatType, fs.fat[last.links[Len(last.links)]])
        \/ /\ last.err = "Error: Infinite allocation loop!"
           /\ IsWalk(fs, last.cluster, last.links)
           /\ Contains(last.links, fs.fat[last.links[Len(last.links)]])

\* the clusters of a directory before the flush and the bytes its entries take
ClustersKept(bytes) == (bytes \div clusterSizeInBytes) + 1

RECURSIVE ClusterBytes(_, _, _)
ClusterBytes(w, clusters, i) ==
    IF i > Len(clusters) THEN <<>>
    ELSE readClusters(w, clusters[i]).data \o ClusterBytes(w, clusters, i + 1)

(* C29.  When flush writes a directory that lives in a cluster chain and   *)
(* its serialized children leave more than one cluster unused, every       *)
(* surplus trailing cluster is removed: once flush has returned its FAT    *)
(* entry is 0 and it is free in the freemap, the new last cluster holds an *)
(* end-of-chain mark, the first cluster stays, and the space after the     *)
(* entries is zero.                                                        *)
C29_SurplusClustersTrimmed ==
    (last.op = "flush" /\ last.err = "") =>
        \A i \in 1..Len(last.pre.altered) :
            \E dir \in {last.pre.dirs[last.pre.altered[i]]} :
                dir.initialCluster # -1 =>
                    \E old \in {getClusterChainFromFAT(last.pre, dir.initialCluster).links},
                       bytes \in {DirEntrySize * Len(dir.children)} :
                        Len(old) * clusterSizeInBytes - bytes > clusterSizeInBytes =>
                            \E kept \in {SubSeq(old, 1, ClustersKept(bytes))} :
                                /\ kept # <<>>
                                /\ \A j \in (Len(kept) + 1)..Len(old) :
                                       fs.fat[old[j]] = 0 /\ fs.freemap[old[j]]
                                /\ fs.fat[kept[Len(kept)]] \in EndOfChainSet(fs.fatType)
                                /\ ~fs.freemap[old[1]]
                                /\ getClusterChainFromFAT(fs, dir.initialCluster) = [err |-> "", links |-> kept]
                                /\ \A b \in (bytes + 1)..(Len(kept) * clusterSizeInBytes) :
                                       ClusterBytes(fs, kept, 1)[b] = 0

\* the second cluster of A is given up after A/Z was deleted
C29_Witness ==
    /\ last.op = "flush"
    /\ last.err = ""
    /\ last.pre.fat[DirAFirst] = DirASecond
    /\ fs.fat[DirASecond] = 0
    /\ fs.freemap[DirASecond]
    /\ fs.fat[DirAFirst] \in EndOfChainSet(fs.fatType)

\* the cached directories that are children of the directories of D, the
\* entries "." and ".." left out
DirChildren(w, D) ==
    UNION {{w.dirs[d].children[k].id :
               k \in {j \in 1..Len(w.dirs[d].children) :
                          /\ w.dirs[d].children[j].isDir
                          /\ ~IsDotEntry(w.ents[RawEntryId(w, w.dirs[d].children[j])])}}
           : d \in D}

\* the directories of the tree as far as it is cached, MaxDepth levels deep
RECURSIVE DirsWithin(_, _, _)
DirsWithin(w, D, depth) ==
    IF depth = 0 THEN D ELSE DirsWithin(w, D \cup DirChildren(w, D), depth - 1)

\* the sectors that hold the body of directory d
DirBodySectors(w, d) ==
    IF w.dirs[d].initialCluster = -1
    THEN {dataSectorOffset + k : k \in 0..(CeilDiv(MaxRootDirEntries * DirEntrySize, BytesPerSector) - 1)}
    ELSE IF w.dirs[d].initialCluster = 0 THEN {}
    ELSE The({IF chain.err # "" THEN {}
              ELSE {clusterToSector(w.fatType, chain.links[k]) : k \in 1..Len(chain.links)}
              : chain \in {getClusterChainFromFAT(w, w.dirs[d].initialCluster)}})

ExistingDirSectors(w) == UNION {DirBodySectors(w, d) : d \in DirsWithin(w, {RootDir}, MaxDepth)}

(* C30.  Between mount and flush no operation (create, delete, mkdir,      *)
(* open, write or close) writes to a sector of a FAT copy or to the body   *)
(* of a directory that existed before the operation: those sectors are     *)
(* written by flush only.                                                  *)
C30_OnlyFlushWritesMetadata ==
    last.op \notin {"mount", "flush"} =>
        \A k \in 1..Len(fs.writes) :
            /\ ~IsFatSector(fs.writes[k])
            /\ fs.writes[k] \notin ExistingDirSectors(last.pre)

(***************************************************************************)
(* Reading a directory buffer.  Every 32-byte slot of the buffer is drawn: *)
(* a live entry, a live long-name slot, a deleted entry, a deleted         *)
(* long-name slot or the end mark.  Slot k carries k in its name and in    *)
(* its low cluster word.                                                    *)
(***************************************************************************)
MaxSlots == 4

SlotKinds == {"file", "lfn", "deleted file", "deleted lfn", "end"}

SlotBytes(kind, k) ==
    Record(1,
           IF kind = "end" THEN 0
           ELSE IF kind \in {"deleted file", "deleted lfn"} THEN FAT_MARKER_DELETED
           ELSE 75 + k,
           IF kind \in {"lfn", "deleted lfn"} THEN ATTR_EQ_LFN ELSE ATTR_NONE,
           0, k, 0)

RECURSIVE SlotsBytes(_, _)
SlotsBytes(kinds, k) ==
    IF k > Len(kinds) THEN <<>> ELSE SlotBytes(kinds[k], k) \o SlotsBytes(kinds, k + 1)

InitDir ==
    /\ \E kinds \in [1..MaxSlots -> SlotKinds] : fs = SlotsBytes(kinds, 1)
    /\ handles = <<>>
    /\ last = [op |-> "buffer", includeDeleted |-> FALSE, err |-> "", entries |-> <<>>]
    /\ expect = [p \in Paths |-> <<>>]
    /\ files = [made |-> {}, touched |-> {}]
    /\ steps = 0

Consume(includeDeleted) ==
    /\ last.op = "buffer"
    /\ \E r \in {consumeAllDirectoryEntries(fs, includeDeleted)} :
           last' = [op |-> "consume", includeDeleted |-> includeDeleted, err |-> r.err, entries |-> r.entries]
    /\ steps' = steps + 1
    /\ UNCHANGED <<fs, handles, expect, files>>

NextDir == \E includeDeleted \in BOOLEAN : Consume(includeDeleted)

SpecDir == InitDir /\ [][NextDir]_vars

SlotCount(data) == Len(data) \div DirEntrySize

FirstByteOfSlot(data, k) == data[(k - 1) * DirEntrySize + 1]

\* the slots in front of the first end mark
SlotsBeforeEnd(data) ==
    {k \in 1..SlotCount(data) : \A j \in 1..k : FirstByteOfSlot(data, j) # 0}

\* the slots the list has to hold, in buffer order
SlotsListed(data, includeDeleted) ==
    {k \in SlotsBeforeEnd(data) : includeDeleted \/ FirstByteOfSlot(data, k) # FAT_MARKER_DELETED}

\* the number of long-name entries directly in front of place i of the list
RECURSIVE LfnsBefore(_, _)
LfnsBefore(entries, i) ==
    IF i <= 1 \/ entries[i - 1].attribs # ATTR_EQ_LFN THEN 0 ELSE 1 + LfnsBefore(entries, i - 1)

(* C31.  consumeAllDirectoryEntries returns the slots in front of the      *)
(* first one that begins with 0x00, in order, without the slots that begin *)
(* with 0xE5 unless includeDeleted is set, and every entry that is no      *)
(* long-name slot has _lfns equal to the number of long-name slots         *)
(* directly in front of it in the returned list.                           *)
C31_EntriesAndLfnCounts ==
    (last.op = "consume" /\ last.err = "") =>
        /\ Len(last.entries) = Cardinality(SlotsListed(fs, last.includeDeleted))
        /\ \A i \in 1..Len(last.entries) :
               /\ last.entries[i].firstClusterAddressLow \in SlotsListed(fs, last.includeDeleted)
               /\ i > 1 => last.entries[i - 1].firstClusterAddressLow < last.entries[i].firstClusterAddressLow
               /\ last.entries[i].attribs # ATTR_EQ_LFN =>
                      last.entries[i].lfns = LfnsBefore(last.entries, i)

(* C39.  consumeAllDirectoryEntries ends for every buffer and returns at   *)
(* most one entry per 32-byte slot, also when no slot begins with 0x00.    *)
C39_ConsumeEnds ==
    last.op = "consume" =>
        /\ last.err = ""
        /\ Len(last.entries) <= SlotCount(fs)

(***************************************************************************)
(* readClusters and writeClusters on a device of any size.  The device has *)
(* numSectors sectors, which need not be as many as the FAT has entries    *)
(* for; the request is what the two methods hand to the driver.            *)
(***************************************************************************)
NoRequest == [err |-> "", sector |-> 0, sectors |-> 0]

readClustersRequest(numSectors, ft, clusterNumber, count) ==
    IF clusterNumber + count > numSectors
    THEN [NoRequest EXCEPT !.err = "FatError: Corrupted FAT - reading outside of volume!"]
    ELSE [err |-> "", sector |-> clusterToSector(ft, clusterNumber), sectors |-> count * SectorsPerCluster]

\* clusterNumber + length / clusterSizeInBytes > numSectors, in whole numbers
writeClustersRequest(numSectors, ft, isWritable, clusterNumber, length) ==
    IF ~isWritable THEN [NoRequest EXCEPT !.err = "FatError: read-only"]
    ELSE IF clusterNumber * clusterSizeInBytes + length > numSectors * clusterSizeInBytes
    THEN [NoRequest EXCEPT !.err = "FatError: Corrupted FAT - writing outside of volume!"]
    ELSE [err |-> "", sector |-> clusterToSector(ft, clusterNumber), sectors |-> CeilDiv(length, BytesPerSector)]

DeviceSizes == {12, 20, 69}

MaxCluster == 24

RequestCounts == {1, 2}

InitClusters ==
    /\ \E ft \in FatTypes, numSectors \in DeviceSizes, isWritable \in BOOLEAN :
           fs = [fatType |-> ft, numSectors |-> numSectors, isWritable |-> isWritable]
    /\ handles = <<>>
    /\ last = [op |-> "mount", clusterNumber |-> 0, count |-> 0, request |-> NoRequest]
    /\ expect = [p \in Paths |-> <<>>]
    /\ files = [made |-> {}, touched |-> {}]
    /\ steps = 0

ReadClusters(clusterNumber, count) ==
    /\ last.op = "mount"
    /\ last' = [op |-> "readClusters", clusterNumber |-> clusterNumber, count |-> count,
                request |-> readClustersRequest(fs.numSectors, fs.fatType, clusterNumber, count)]
    /\ steps' = steps + 1
    /\ UNCHANGED <<fs, handles, expect, files>>

WriteClusters(clusterNumber, count) ==
    /\ last.op = "mount"
    /\ last' = [op |-> "writeClusters", clusterNumber |-> clusterNumber, count |-> count,
                request |-> writeClustersRequest(fs.numSectors, fs.fatType, fs.isWritable,
                                                 clusterNumber, count * clusterSizeInBytes)]
    /\ steps' = steps + 1
    /\ UNCHANGED <<fs, handles, expect, files>>

NextClusters ==
    \/ \E clusterNumber \in RootDirCluster..MaxCluster, count \in RequestCounts : ReadClusters(clusterNumber, count)
    \/ \E clusterNumber \in RootDirCluster..MaxCluster, count \in RequestCounts : WriteClusters(clusterNumber, count)

SpecClusters == InitClusters /\ [][NextClusters]_vars

\* the sectors of count clusters from clusterNumber on
SectorsOfClusters(ft, clusterNumber, count) ==
    clusterToSector(ft, clusterNumber)..(clusterToSector(ft, clusterNumber) + count * SectorsPerCluster - 1)

(* C33.  readClusters and writeClusters hand the driver no request that    *)
(* covers a sector index at or beyond numSectors: a request for clusters   *)
(* with a sector outside the volume ends with the corruption error and     *)
(* nothing is asked of the device.                                         *)
C33_NoAccessOutsideVolume ==
    last.op \in {"readClusters", "writeClusters"} =>
        /\ last.request.err = "" =>
               \A s \in last.request.sector..(last.request.sector + last.request.sectors - 1) : s < fs.numSectors
        /\ (\E s \in SectorsOfClusters(fs.fatType, last.clusterNumber, last.count) : s >= fs.numSectors) =>
               /\ last.request.err \in {"FatError: Corrupted FAT - reading outside of volume!",
                                        "FatError: Corrupted FAT - writing outside of volume!",
                                        "FatError: read-only"}
               /\ last.request.sectors = 0

-----------------------------------------------------------------------------
\* sector s of the FAT in memory is not what some copy on the device holds
FatSectorDiffers(w, s) ==
    \E fat \in 0..(FatCount - 1) :
        readSector(w.dev, ReservedSectors + fat * SectorsPerFat + s) # fatSectorSlice(w.fatType, w.fat, s)

\* the sectors phase 1 of a flush of w has to write, in the order of the code
PhaseOneWrites(w) ==
    [k \in 1..(FatCount * Len(w.alteredFATSectors)) |->
        ReservedSectors + ((k - 1) \div Len(w.alteredFATSectors)) * SectorsPerFat
            + w.alteredFATSectors[((k - 1) % Len(w.alteredFATSectors)) + 1]]

(* C32.  Between any two calls every sector of the FAT whose contents in   *)
(* memory differ from a copy on the device is in alteredFATSectors and     *)
(* fatAltered is set; the FAT phase of flush writes exactly the sectors of *)
(* that set to each copy, at the sector's place in the copy, and leaves    *)
(* the set empty and the flag cleared.                                     *)
C32_AlteredFatSectorsTracked ==
    /\ \A s \in 0..(SectorsPerFat - 1) :
           FatSectorDiffers(fs, s) => (Contains(fs.alteredFATSectors, s) /\ fs.fatAltered)
    /\ (last.op = "flush interrupted" /\ last.err = "") =>
           /\ fs.writes = PhaseOneWrites(last.pre)
           /\ fs.alteredFATSectors = <<>>
           /\ ~fs.fatAltered
           /\ \A s \in 0..(SectorsPerFat - 1) : ~FatSectorDiffers(fs, s)
    /\ (last.op = "flush" /\ last.pre.fatAltered) =>
           SubSeq(fs.writes, 1, FatCount * Len(last.pre.alteredFATSectors)) = PhaseOneWrites(last.pre)

(***************************************************************************)
(* The freelist under every operation that changes the freemap: allocate,  *)
(* the release of a chain as delete does it, redefineClusterChain, delete  *)
(* and the trimming of flush, from volumes with all, two or none of the    *)
(* free clusters of the image left free.                                   *)
(***************************************************************************)
MaxFreelistOps == 3

FreelistVolumes == {FreeClusters, {4, 6}, {}}

NewChains == {<<FileXCluster>>, <<3, 4>>, <<DirASecond, DirAFirst, 6>>}

InitFreelist ==
    /\ \E ft \in FatTypes, free \in FreelistVolumes :
           fs = load(VolumeDev(ft, free), ft, TRUE, FALSE)
    /\ handles = <<>>
    /\ last = NoAllocCall
    /\ expect = [p \in Paths |-> <<>>]
    /\ files = [made |-> {}, touched |-> {}]
    /\ steps = MaxOps - MaxFreelistOps

Redefine(oldInitialCluster, chain) ==
    /\ steps < MaxOps
    /\ \E w \in {redefineClusterChain(Begin, oldInitialCluster, chain)} :
           /\ fs' = Settle(w)
           /\ last' = [NoAllocCall EXCEPT !.op = "redefine", !.lastLink = oldInitialCluster,
                                          !.links = chain, !.err = w.err, !.pre = fs]
    /\ steps' = steps + 1
    /\ UNCHANGED <<handles, expect, files>>

NextFreelist ==
    \/ NextAlloc
    \/ \E oldInitialCluster \in {FileXCluster, DirAFirst}, chain \in NewChains :
           Redefine(oldInitialCluster, chain)
    \/ \E path \in {PathAZ, PathX} : Delete(path)
    \/ Flush

SpecFreelist == InitFreelist /\ [][NextFreelist]_vars

\* the clusters of a run
RunClusters(run) == run.startCluster..(run.startCluster + run.length - 1)

(* C34.  After init, allocate, addClusterListToFreelist,                   *)
(* redefineClusterChain and the trimming of flush, the freelist is the     *)
(* list of the maximal runs of consecutive free entries of the freemap, in *)
(* increasing order of start cluster, with no run of length 0.             *)
C34_FreelistIsRunsOfFreemap ==
    /\ \A i \in 1..Len(fs.freelist) :
           /\ fs.freelist[i].length >= 1
           /\ \A c \in RunClusters(fs.freelist[i]) : c \in DOMAIN fs.freemap /\ fs.freemap[c]
           /\ (fs.freelist[i].startCluster - 1) \in DOMAIN fs.freemap =>
                  ~fs.freemap[fs.freelist[i].startCluster - 1]
           /\ (fs.freelist[i].startCluster + fs.freelist[i].length) \in DOMAIN fs.freemap =>
                  ~fs.freemap[fs.freelist[i].startCluster + fs.freelist[i].length]
           /\ \A j \in 1..(i - 1) : fs.freelist[j].startCluster < fs.freelist[i].startCluster
    /\ \A c \in DOMAIN fs.freemap :
           fs.freemap[c] => \E i \in 1..Len(fs.freelist) : c \in RunClusters(fs.freelist[i])

\* the second cluster of A, given up by the trimming of a flush, is a run
\* between the taken clusters 8 and 10
C34_Witness ==
    /\ last.op = "flush"
    /\ last.err = ""
    /\ ~last.pre.freemap[DirASecond]
    /\ \E i \in 1..Len(fs.freelist) : fs.freelist[i] = [startCluster |-> DirASecond, length |-> 1]

-----------------------------------------------------------------------------
\* the entries the cache of the root holds once it is loaded
RootEntries(w) == getEntries(w, RootDir).dirs[RootDir].children

\* the last call was to add a name that did not exist to a full FAT16 root
RootWouldOverflow ==
    /\ last.op \in {"create", "mkdir"}
    /\ fs.fatType = "Fat16"
    /\ ParentPath(last.path) = <<SLASH>>
    /\ Len(RootEntries(last.pre)) >= MaxRootDirEntries
    /\ ~traverse(last.pre, last.path).found

(* C35.  On FAT16 a create or mkdir that would put more entries into the   *)
(* root directory than its fixed region holds fails cleanly: the call      *)
(* reports an error, the cached root is as it was, and a flush after it    *)
(* succeeds.                                                               *)
C35_FullRootRejectsEntry ==
    RootWouldOverflow =>
        /\ last.err # ""
        /\ RootEntries(fs) = RootEntries(last.pre)
        /\ OK(flushMetadataChanges(Begin))

-----------------------------------------------------------------------------
\* the bytes of link k of a chain within the bytes of the whole chain
LinkSegment(links, k, bytes) ==
    SubSeq(bytes, SumLengths(SubSeq(links, 1, k - 1)) + 1, SumLengths(SubSeq(links, 1, k)))

(* C36.  Under every order of write, read, seek and flush on one chain, a  *)
(* read while a buffer is pending leaves the buffer with the link it was   *)
(* filled for, and the seek or flush that writes the buffer out changes    *)
(* that link alone: afterwards every link of the chain holds the written   *)
(* bytes at the positions they were written at and its old bytes           *)
(* elsewhere.                                                              *)
C36_WritesLandAtTheirPosition ==
    \A i \in 1..Len(handles) :
        \E ch \in {handles[i].handle.chain} :
            /\ (last.op = "chain read" /\ last.chain.writingBuffer # <<>>) =>
                   /\ ch.writingBuffer = last.chain.writingBuffer
                   /\ ch.currentLink = last.chain.currentLink
            /\ (/\ last.op \in {"chain seek", "chain flush"}
                /\ last.chain.writingBuffer # <<>>
                /\ expect[handles[i].path] # Unknown) =>
                   \A k \in 1..Len(ch.links) :
                       DeviceBytes(fs, <<ch.links[k]>>, 1) = LinkSegment(ch.links, k, expect[handles[i].path])

(***************************************************************************)
(* FatFSFileHandle.seek and the calls after it.  seek calls Chain.seek     *)
(* without awaiting it and returns: what Chain.seek does after its first   *)
(* await (the cursor is set there) is a continuation that runs at some     *)
(* later moment.  A read is in two parts: the count is limited before the  *)
(* first await, the loop runs after it.  The one handle is open on X; its  *)
(* record also holds the target of a seek whose continuation has not run   *)
(* (seeking), the limited count of a read that is waiting (reading), and   *)
(* the target of a seek that has returned with no call after it (sought).  *)
(***************************************************************************)
MaxSeekSteps == 5

SeekPlaces == 0..Len(FileXBytes)

SeekReadCounts == {1, 2, 3}

NoSeekCall == [op |-> "mount", sought |-> -1, from |-> 0, count |-> 0, data |-> <<>>, err |-> ""]

InitSeek ==
    /\ \E ft \in FatTypes :
           \E o \in {open(load(ImageDev(ft, FALSE), ft, TRUE, FALSE), PathX, TRUE)} :
               /\ fs = Settle(o.w)
               /\ handles = <<[handle |-> o.handle, path |-> PathX, fresh |-> FALSE, written |-> <<>>,
                               seeking |-> -1, reading |-> -1, sought |-> -1]>>
    /\ last = NoSeekCall
    /\ expect = [p \in Paths |-> IF p = PathX THEN FileXBytes ELSE <<>>]
    /\ files = [made |-> {}, touched |-> {}]
    /\ steps = 0

\* FatFSFileHandle.seek(to): returns at once
HandleSeek(to) ==
    /\ steps < MaxSeekSteps
    /\ handles[1].seeking = -1 /\ handles[1].reading = -1
    /\ handles' = [handles EXCEPT ![1].seeking = to, ![1].sought = to]
    /\ last' = [NoSeekCall EXCEPT !.op = "seek", !.sought = to, !.from = handles[1].handle.chain.cursor]
    /\ steps' = steps + 1
    /\ UNCHANGED <<fs, expect, files>>

\* the rest of Chain.seek: the flush and the assignment to the cursor
SeekContinuation ==
    /\ handles[1].seeking # -1
    /\ \E r \in {chainSeek(Begin, handles[1].handle.chain, handles[1].seeking)} :
           /\ fs' = Settle(r.w)
           /\ handles' = [handles EXCEPT ![1].handle.chain = r.ch, ![1].seeking = -1]
    /\ UNCHANGED <<last, expect, files, steps>>

\* Chain.read up to its first await; a read of nothing returns at once
ReadStarts(count) ==
    /\ steps < MaxSeekSteps
    /\ handles[1].reading = -1
    /\ \E ch \in {handles[1].handle.chain} :
       \E limited \in {Min(ch.totalLength, count + ch.cursor) - ch.cursor} :
           /\ limited >= 0
           /\ IF limited = 0 \/ ch.currentLink = NoLink
              THEN /\ last' = [NoSeekCall EXCEPT !.op = "read", !.sought = handles[1].sought,
                                                 !.from = ch.cursor, !.count = count]
                   /\ handles' = [handles EXCEPT ![1].sought = -1]
              ELSE /\ last' = [NoSeekCall EXCEPT !.op = "reading", !.sought = handles[1].sought,
                                                 !.from = ch.cursor, !.count = count]
                   /\ handles' = [handles EXCEPT ![1].reading = limited]
    /\ steps' = steps + 1
    /\ UNCHANGED <<fs, expect, files>>

\* the loop of Chain.read, on the chain as it is when the read goes on
ReadReturns ==
    /\ handles[1].reading # -1
    /\ last.op = "reading"
    /\ \E r \in {chainReadLoop(Begin, handles[1].handle.chain, handles[1].reading, <<>>)} :
           /\ handles' = [handles EXCEPT ![1].handle.chain = r.ch, ![1].reading = -1, ![1].sought = -1]
           /\ last' = [last EXCEPT !.op = "read", !.data = r.data, !.err = r.err]
    /\ UNCHANGED <<fs, expect, files, steps>>

\* FatFSFileHandle.write(data), awaited
SeekWrite(data) ==
    /\ steps < MaxSeekSteps
    /\ handles[1].reading = -1
    /\ \E r \in {handleWrite(Begin, handles[1].handle, data)} :
           /\ fs' = Settle(r.w)
           /\ handles' = [handles EXCEPT ![1].handle = r.handle, ![1].sought = -1,
                                         ![1].written = IF OK(r.w) THEN @ \o data ELSE @]
           /\ last' = [NoSeekCall EXCEPT !.op = "write", !.sought = handles[1].sought,
                                         !.from = handles[1].handle.chain.cursor,
                                         !.count = Len(data), !.data = data, !.err = r.w.err]
    /\ steps' = steps + 1
    /\ UNCHANGED <<expect, files>>

NextSeek ==
    \/ \E to \in SeekPlaces : HandleSeek(to)
    \/ SeekContinuation
    \/ \E count \in SeekReadCounts : ReadStarts(count)
    \/ ReadReturns
    \/ \E data \in {<<1>>, <<2, 3>>} : SeekWrite(data)

SpecSeek == InitSeek /\ [][NextSeek]_vars

(* C37.  Once FatFSFileHandle.seek(p) has returned, the next read(n) on    *)
(* the handle returns the bytes of the file from position p on, and the    *)
(* next write starts at position p, whenever the continuations run.        *)
C37_NextCallAtSoughtPosition ==
    /\ (last.op = "read" /\ last.sought # -1 /\ handles[1].written = <<>>) =>
           /\ last.err = ""
           /\ last.data = SubSeq(FileXBytes, last.sought + 1,
                                 Min(last.sought + last.count, Len(FileXBytes)))
    /\ (last.op = "write" /\ last.sought # -1) => last.from = last.sought

-----------------------------------------------------------------------------
\* the step is a write or the close of handle i
WriteOrClose(i) == (\E data \in WriteData : Write(i, data)) \/ Close(i)

(* C38.  A handle opened with writable = false changes nothing: a write on *)
(* it is rejected, and neither a write nor the close changes the device,   *)
(* the FAT, the freemap or the directory entry of the file.                *)
C38_ReadOnlyHandleChangesNothing ==
    [][\A i \in 1..Len(handles) :
           (~handles[i].handle.writable /\ WriteOrClose(i)) =>
               /\ last'.op = "write" => last'.err # ""
               /\ fs'.dev = fs.dev
               /\ fs'.fat = fs.fat
               /\ fs'.freemap = fs.freemap
               /\ fs'.ents[handles[i].handle.underlying] = fs.ents[handles[i].handle.underlying]]_vars

-----------------------------------------------------------------------------
\* the entries of a cached directory that name a file or a directory
LiveEntries(w, d) ==
    SelectSeq(w.dirs[d].children,
              LAMBDA c : c.isDir \/ w.ents[RawEntryId(w, c)].attribs # ATTR_EQ_LFN)

\* no two of them have the same 8.3 name, letter case set aside
NamesDiffer(w, d) ==
    \E live \in {LiveEntries(w, d)} :
        \A i, j \in 1..Len(live) :
            i < j => toLowerCase(w.ents[RawEntryId(w, live[i])].filenameStr)
                         # toLowerCase(w.ents[RawEntryId(w, live[j])].filenameStr)

\* the entries of the directory a path lies in
SiblingsOf(w, path) ==
    The({IF ~t.found THEN <<>> ELSE getEntries(t.w, t.entry.id).dirs[t.entry.id].children
         : t \in {traverse(w, ParentPath(path))}})

(* C40.  After any sequence of create, mkdir and rename no directory holds *)
(* two live entries with the same 8.3 name, letter case set aside; a       *)
(* create or mkdir of a path that exists adds no entry and takes no        *)
(* cluster.                                                                *)
C40_NamesUniqueInDirectory ==
    /\ \A d \in DirsWithin(fs, {RootDir}, MaxDepth) : fs.dirs[d].loaded => NamesDiffer(fs, d)
    /\ (last.op \in {"create", "mkdir"} /\ traverse(last.pre, last.path).found) =>
           /\ SiblingsOf(fs, last.path) = SiblingsOf(last.pre, last.path)
           /\ fs.freemap = last.pre.freemap
           /\ fs.fat = last.pre.fat

====
